---- MODULE Spec2Model ----
(***************************************************************************)
(* Streaming event reducer of the agent template.                          *)
(*                                                                         *)
(*   Producer : src/src/app/api/chat/route.ts, the start() callback of the *)
(*              ReadableStream built by POST.  One action per kind of      *)
(*              upstream message of the for-await loop.                    *)
(*   Consumer : src/src/components/chat/ChatInterface.tsx, sendMessage.    *)
(*              One action per branch of the per-line frame dispatch.      *)
(*                                                                         *)
(* JavaScript values are modelled as follows.  Strings are TLA+ strings    *)
(* (\o is +=).  Objects are functions from field names: a field that is    *)
(* undefined is absent from the DOMAIN, which is also what JSON.stringify  *)
(* puts on the wire.  A string field that the code only tests for          *)
(* truthiness is read with Str, which gives "" when it is absent.          *)
(*                                                                         *)
(* Scope of the specifications.                                            *)
(*   Spec         : one streaming response whose client stays connected,   *)
(*                  so controller.enqueue and controller.close succeed.    *)
(*   ConsumerSpec : requests of one client, one after the other; the       *)
(*                  frames of a response are any frames of the wire        *)
(*                  format, and a setMessages updater takes effect where   *)
(*                  it is called.  Date.now() is a clock that may stand    *)
(*                  still between two steps.                               *)
(*   PostSpec     : POST of route.ts from the credential check to its      *)
(*                  return, for any credential, body and tool              *)
(*                  configuration, and the tool requests that the upstream *)
(*                  runtime then makes of options.canUseTool.              *)
(*   ReaderSpec   : the read loop of sendMessage on one response body cut  *)
(*                  into chunks anywhere.  The loop over the lines of a    *)
(*                  chunk runs without interruption; React runs the queued *)
(*                  setMessages updaters at a render, which can happen     *)
(*                  only while sendMessage is suspended in an await.  The  *)
(*                  clock stands still.                                    *)
(*   ConfigSpec   : calls of getAgentConfig one after the other, with the  *)
(*                  platform settings present or missing and the platform  *)
(*                  answering, failing or sending an unusable document;    *)
(*                  the module-level cache lives across calls while the    *)
(*                  server's clock advances.                               *)
(*   ClientSpec   : the life of sendMessage from the Enter key to its      *)
(*                  return: the guard, the awaited log calls, the fetch    *)
(*                  and its failures, the frames and the finally block.    *)
(*                  React renders the state updates of a key or change     *)
(*                  handler before it dispatches the next event; updates   *)
(*                  made after an await are committed by a later render.   *)
(*                  A log call or a response may stay outstanding forever. *)
(*   DisconnectSpec : Spec where the client may go away during the         *)
(*                  response; from then on controller.enqueue throws       *)
(*                  inside sendChunk.                                      *)
(*   ConcurrentSpec : two responses streaming in one server process, their *)
(*                  loop bodies interleaved at the awaits of the iterator. *)
(*   SecondTurnSpec : ConsumerSpec started in the middle of a response, at *)
(*                  a state that ConsumerSpec reaches: a text entry is     *)
(*                  open and the summary of the turn has arrived.          *)
(*   ClientLiveSpec : ClientSpec where a fetch is answered or fails, a     *)
(*                  response body ends or fails and React commits; a log   *)
(*                  call has no timeout and may still never settle.        *)
(***************************************************************************)
EXTENDS Integers, Sequences, FiniteSets, TLC

\* ------------------------------------------------------------------ bounds
\* Upstream messages consumed by one Producer run.
MaxEvents == 3
\* Inputs of the Consumer: user sends and frames applied.
MaxSteps == 4
\* Largest value of the Consumer's millisecond clock (Date.now()).
MaxClock == 1

\* ------------------------------------------------------------ JS helpers
EmptyObj == [k \in {} |-> 0]

\* The field `name` when `cond` holds, nothing otherwise (an undefined field).
Opt(name, cond, val) == IF cond THEN (name :> val) ELSE EmptyObj

\* obj.k || ''
Str(obj, k) == IF k \in DOMAIN obj THEN obj[k] ELSE ""

\* truthiness of a string-valued field: defined and not ''
Has(obj, k) == k \in DOMAIN obj /\ obj[k] # ""

\* { ...a, ...b }
Spread(a, b) ==
    [k \in (DOMAIN a) \cup (DOMAIN b) |-> IF k \in DOMAIN b THEN b[k] ELSE a[k]]

RECURSIVE Join(_)
\* parts.join('')
Join(parts) == IF parts = <<>> THEN "" ELSE Head(parts) \o Join(Tail(parts))

\* ------------------------------------------------------ upstream inputs
ToolIds == {"t1", "t2"}

\* model = config.agent.model || 'claude-haiku-4-5-20251001'
Model == "claude-haiku-4-5-20251001"

\* event.content_block of a content_block_start stream event
Blocks == {[type |-> "thinking"], [type |-> "text"]}

\* What a tool fragment carries besides its id: name and input are optional.
ToolFrags ==
    { EmptyObj,
      [name |-> "search"],
      [input |-> [a |-> 1]],
      [input |-> [a |-> 2]],
      [input |-> [b |-> 2]],
      [name |-> "fetch", input |-> [a |-> 1]] }

\* event.delta of a content_block_delta stream event
Deltas ==
    {[type |-> "thinking_delta", thinking |-> t] : t \in {"", "Let", " me think"}}
      \cup {[type |-> "text_delta", text |-> t] : t \in {"", "a", "b"}}
      \cup {[type |-> "tool_use_delta", tool_use_id |-> "t1"] @@ f : f \in ToolFrags}
      \cup {[type |-> "tool_use_delta", tool_use_id |-> "t2"] @@ f :
                f \in {EmptyObj, [input |-> [b |-> 2]]}}
      \cup { [type |-> "tool_use_delta", id |-> "t2", input |-> [a |-> 1]],
             [type |-> "tool_use_delta"],
             [type |-> "text_delta", text |-> "a", tool_use_id |-> "t1"] }

\* a message_delta stream event: usage sits in event.delta.usage or event.usage
MessageDeltas ==
    { [type |-> "message_delta", delta |-> [usage |-> [output_tokens |-> 2]]],
      [type |-> "message_delta", delta |-> EmptyObj,
          usage |-> [input_tokens |-> 1, output_tokens |-> 1]],
      [type |-> "message_delta", delta |-> EmptyObj] }

\* message.message.content of an assistant message (an array of parts)
Contents ==
    { <<[type |-> "text", text |-> "a"]>>,
      <<[type |-> "text", text |-> "a"], [type |-> "text", text |-> "b"]>>,
      <<[type |-> "tool_use", id |-> "t1", input |-> [b |-> 2]]>>,
      <<[type |-> "text", text |-> "b"],
        [type |-> "tool_use", id |-> "t1", name |-> "search", input |-> [b |-> 2]]>>,
      <<[type |-> "tool_use", id |-> "t2", name |-> "fetch"],
        [type |-> "text", text |-> "a"]>>,
      <<[type |-> "tool_use", id |-> "t1", input |-> [a |-> 2]],
        [type |-> "tool_use", id |-> "t2", input |-> [a |-> 1]],
        [type |-> "text", text |-> "ab"]>>,
      <<[type |-> "tool_use", name |-> "search"]>> }

\* assistant messages; the last one has no content array
AssistantMessages ==
    {[type |-> "assistant", message |-> [content |-> c]] : c \in Contents}
      \cup { [type |-> "assistant", model |-> "opus",
                 usage |-> [input_tokens |-> 2],
                 message |-> [content |-> <<[type |-> "text", text |-> "b"]>>]],
             [type |-> "assistant", message |-> EmptyObj] }

\* result messages
ResultMessages ==
    { [type |-> "result", tool_use_id |-> "t1", content |-> "r1", subtype |-> "success"],
      [type |-> "result", tool_use_id |-> "t1", content |-> "r2",
          subtype |-> "error_during_execution"],
      [type |-> "result", tool_use_id |-> "t2", content |-> "r1", subtype |-> "error_max_turns"],
      [type |-> "result", tool_use_id |-> "t1", subtype |-> "success"],
      [type |-> "result", content |-> "r1", subtype |-> "success"] }

\* error.message of what the upstream iterator throws; a thrown non-Error has none
Thrown == {[message |-> "upstream failed"], EmptyObj}

\* ------------------------------------------------------- Producer state
VARIABLES
    pc,                \* "streaming": inside the for-await loop; "closed": start() returned
    assistantMessage,  \* let assistantMessage
    thinking,          \* let thinking
    toolCalls,         \* const toolCalls (rows in order of first sight)
    toolCallsMap,      \* const toolCallsMap: id -> position of its row (1-based here)
    usageMetadata,     \* const usageMetadata
    frames,            \* what controller.enqueue received, in order (decoded)
    closeCount,        \* number of controller.close() calls
    nEvents,           \* upstream messages consumed so far
    \* history of the upstream input, kept for the properties only
    hText,             \* the non-empty text fragments received, in order
    hThink,            \* the non-empty thinking fragments since the last thinking block start
    hThinkBase,        \* Len(frames) at the last thinking block start
    hFrags,            \* per tool id, the inputs of the fragments bearing it, in order
    hTools,            \* the upstream emitted a tool fragment, a tool_use part or a tool result
    hSeen,             \* the tool ids that fragments carried, in order of first sight
    hMerge,            \* the last upstream message whose fragments created or merged rows
    hResult,           \* the result message, if the message consumed last was one
    connected,         \* the client still reads the stream: enqueue and close succeed
    sendErrors,        \* number of 'Error sending chunk' reports of sendChunk
    hExit              \* how start() left the loop: "" while inside it, then
                       \* "exhausted", "raised" (the iterator threw) or "threw" (a step did)

pvars == <<pc, assistantMessage, thinking, toolCalls, toolCallsMap, usageMetadata,
           frames, closeCount, nEvents, hText, hThink, hThinkBase, hFrags, hTools, hSeen,
           hMerge, hResult, connected, sendErrors, hExit>>

\* -------------------------------------------------------- Consumer state
VARIABLES
    messages,            \* useState<Message[]>: the timeline
    isLoading,           \* useState(false)
    cpc,                 \* "idle": no sendMessage running; "reading": in the read loop
    contentAccumulator,  \* let contentAccumulator
    contentMessageId,    \* let contentMessageId
    responseMetadata,    \* let responseMetadata
    now,                 \* Date.now()
    data,                \* const data: the frame of the line applied last
    nSteps,              \* user sends and frames so far
    \* history, kept for the properties only
    hDeltas,             \* the deltas applied since the last terminal frame
    hBase                \* Len(messages) at the last terminal frame or request start

cvars == <<messages, isLoading, cpc, contentAccumulator, contentMessageId,
           responseMetadata, now, data, nSteps, hDeltas, hBase>>

\* ------------------------------------------------- chat endpoint state
VARIABLES
    apiKey,      \* process.env.ANTHROPIC_API_KEY
    body,        \* what request.json() gives for the request
    config,      \* what getAgentConfig() resolved to
    rpc,         \* "received": POST not yet run; "responded": a JSON response was
                 \* returned; "streaming": the streaming response was returned
    response,    \* the value POST returned
    queryCalls,  \* number of query() invocations
    options,     \* the options of the query() call
    prompt,      \* the prompt of the query() call
    decisions    \* tool requests of the upstream runtime and what canUseTool said

rvars == <<apiKey, body, config, rpc, response, queryCalls, options, prompt, decisions>>

\* ---------------------------------------------- Consumer read loop state
VARIABLES
    wire,       \* the bytes of the response body, as characters
    pos,        \* how many of them reader.read() has delivered
    buffer,     \* let buffer: the trailing partial line
    lines,      \* the lines of the current chunk the for loop has not reached yet
    pending,    \* the updaters queued by setMessages and not yet run by a render
    sessionId,  \* the sessionId state as captured by sendMessage (Null: no logging)
    awaiting,   \* suspended in `await logMessage` of the terminal branch
    \* history, kept for the properties only
    hApplied,   \* the frames parsed and dispatched, in order
    hRef        \* the timeline of the same frames applied one at a time

svars == <<wire, pos, buffer, lines, pending, sessionId, awaiting, hApplied, hRef>>

\* --------------------------------------- configuration accessor state
VARIABLES
    platformEnv,    \* NEXT_PUBLIC_PLATFORM_API_URL and NEXT_PUBLIC_DEPLOYMENT_ID
    cachedConfig,   \* let cachedConfig (module scope)
    lastFetchTime,  \* let lastFetchTime (module scope)
    serverNow,      \* Date.now() of the server process
    returned,       \* how the last getAgentConfig() call settled
    \* history, kept for the properties only
    hFetch,         \* which way the last call took
    hStale          \* cachedConfig as the last call found it

gvars == <<platformEnv, cachedConfig, lastFetchTime, serverNow, returned, hFetch, hStale>>

\* ------------------------------------------------ Consumer request state
VARIABLES
    input,      \* useState(''): the text of the textarea
    closure,    \* the state values that the handlers of the last render closed over
    sessionPc,  \* initSession: "disabled" (logging not configured), "creating"
                \* (awaiting createSession) or "done"
    calls,      \* the sendMessage invocations, in order of their start
    logs        \* the logMessage calls that reached the platform's endpoint

lvars == <<input, closure, sessionPc, calls, logs>>

\* ------------------------------------ concurrent responses of one process
VARIABLES
    store,    \* the accumulators of start(), by the scope that holds them
    streams   \* per request: position of start(), the frames its controller
              \* received, its close() calls, and (history) the upstream messages
              \* it consumed and how the iterator ended

xvars == <<store, streams>>

vars == <<pvars, cvars, rvars, svars, gvars, lvars, xvars>>

\* a faulty sendChunk: the frame object is enqueued as it is and encoded only when
\* the next frame is sent, so the rows that [...toolCalls] shares with the table
\* are read after their later updates
MutSendChunk(fr, chunk) ==
    Append([i \in 1..Len(fr) |->
               IF "toolCalls" \in DOMAIN fr[i] /\ "toolCalls" \in DOMAIN chunk
               THEN [fr[i] EXCEPT !.toolCalls =
                        [k \in 1..Len(@) |-> chunk.toolCalls[k]]]
               ELSE fr[i]],
           chunk)

\* sendChunk: JSON-encode and enqueue one frame; once the client is gone enqueue
\* throws, and the catch block of sendChunk only reports it
sendChunk(fr, chunk) == IF connected THEN Append(fr, chunk) ELSE fr

\* sendErrors after n calls of sendChunk
Reported(n) == IF connected THEN sendErrors ELSE sendErrors + n

\* [...toolCalls] serialised into a frame
Snapshot(tcs) == tcs

\* ---- tool table
\* the row created for an unseen id (timestamp, never read, is left out)
NewRow(toolId, frag) ==
    [id |-> toolId,
     name |-> Str(frag, "name"),
     input |-> IF "input" \in DOMAIN frag THEN frag.input ELSE EmptyObj,
     status |-> "pending"]

\* a streaming delta merged into the row of its id
UpdateRowDelta(row, delta) ==
    [row EXCEPT !.name = IF Has(delta, "name") THEN delta.name ELSE @,
                !.input = IF "input" \in DOMAIN delta THEN Spread(@, delta.input) ELSE @]

\* a tool_use part of the final message applied to the row of its id
UpdateRowFinal(row, part) ==
    [row EXCEPT !.name = IF Has(part, "name") THEN part.name ELSE @,
                !.input = IF "input" \in DOMAIN part THEN part.input ELSE @]

\* a faulty PushRow: the id of the new row is not entered in the map
MutPushRow(tcs, map, row) == [toolCalls |-> Append(tcs, row), toolCallsMap |-> map]

\* toolCalls.push(toolCall); toolCallsMap.set(toolId, index)
PushRow(tcs, map, row) ==
    [toolCalls |-> Append(tcs, row), toolCallsMap |-> map @@ (row.id :> Len(tcs) + 1)]

\* delta.tool_use_id || delta.id
DeltaToolId(delta) ==
    IF Has(delta, "tool_use_id") THEN delta.tool_use_id ELSE Str(delta, "id")

\* the tool_use_delta branch applies to this delta and it names a tool
IsToolDelta(delta) ==
    /\ (Str(delta, "type") = "tool_use_delta" \/ Has(delta, "tool_use_id"))
    /\ DeltaToolId(delta) # ""

\* the tool table after the tool_use_delta branch
ToolDelta(tcs, map, delta) ==
    LET toolId == DeltaToolId(delta) IN
    IF toolId \in DOMAIN map
    THEN [toolCalls |-> [tcs EXCEPT ![map[toolId]] = UpdateRowDelta(@, delta)],
          toolCallsMap |-> map]
    ELSE PushRow(tcs, map, NewRow(toolId, delta))

\* a faulty FinalParts: a row added from the final message is not flagged as new
RECURSIVE MutFinalParts(_, _, _, _)
MutFinalParts(parts, tcs, map, hasNew) ==
    IF parts = <<>>
    THEN [toolCalls |-> tcs, toolCallsMap |-> map, hasNewToolCalls |-> hasNew]
    ELSE LET part == Head(parts) IN
         IF Str(part, "type") = "tool_use" /\ Has(part, "id") /\ part.id \notin DOMAIN map
         THEN MutFinalParts(Tail(parts), Append(tcs,
                                [id |-> part.id, name |-> Str(part, "name"),
                                 input |-> IF "input" \in DOMAIN part THEN part.input
                                           ELSE EmptyObj,
                                 status |-> "pending"]),
                            map @@ (part.id :> Len(tcs) + 1), hasNew)
         ELSE MutFinalParts(Tail(parts), tcs, map, hasNew)

\* the forEach over the parts of the final message
RECURSIVE FinalParts(_, _, _, _)
FinalParts(parts, tcs, map, hasNew) ==
    IF parts = <<>>
    THEN [toolCalls |-> tcs, toolCallsMap |-> map, hasNewToolCalls |-> hasNew]
    ELSE LET part == Head(parts) IN
         IF Str(part, "type") = "tool_use" /\ Has(part, "id")
         THEN IF part.id \in DOMAIN map
              THEN FinalParts(Tail(parts),
                              [tcs EXCEPT ![map[part.id]] = UpdateRowFinal(@, part)],
                              map, hasNew)
              ELSE LET p == PushRow(tcs, map, NewRow(part.id, part)) IN
                   FinalParts(Tail(parts), p.toolCalls, p.toolCallsMap, TRUE)
         ELSE FinalParts(Tail(parts), tcs, map, hasNew)

\* content.filter(part => part.type === 'text').map(part => part.text || '')
RECURSIVE TextParts(_)
TextParts(parts) ==
    IF parts = <<>> THEN <<>>
    ELSE (IF Str(Head(parts), "type") = "text" THEN <<Str(Head(parts), "text")>> ELSE <<>>)
            \o TextParts(Tail(parts))

\* usageMetadata after the two `!== undefined` assignments
UpdateUsage(meta, usage) == Spread(meta, usage)

\* a faulty Summary: the tool table is left out of the frame
MutSummary(type, content, th, tcs, modelInfo, meta) ==
    [type |-> type, content |-> content, model |-> modelInfo]
        @@ Opt("thinking", th # "", th)
        @@ Opt("usage", DOMAIN meta # {}, meta)

\* a faulty Summary: an empty tool table is sent as an empty list
MutSummaryEmptyList(type, content, th, tcs, modelInfo, meta) ==
    [type |-> type, content |-> content, model |-> modelInfo]
        @@ Opt("thinking", th # "", th)
        @@ Opt("toolCalls", TRUE, tcs)
        @@ Opt("usage", DOMAIN meta # {}, meta)

\* the fields shared by the assistant and done frames
Summary(type, content, th, tcs, modelInfo, meta) ==
    [type |-> type, content |-> content, model |-> modelInfo]
        @@ Opt("thinking", th # "", th)
        @@ Opt("toolCalls", Len(tcs) > 0, Snapshot(tcs))
        @@ Opt("usage", DOMAIN meta # {}, meta)

\* a faulty AppendThinking: thinking = delta.thinking
MutAppendThinking(th, delta) == delta.thinking

\* thinking += delta.thinking
AppendThinking(th, delta) == th \o delta.thinking

\* the frame of a thinking delta, sent after the accumulation
ThinkingChunk(th) == [type |-> "thinking", content |-> th]

\* a faulty ContentDeltaChunk: the frame carries the accumulated text
MutContentDeltaChunk(acc, delta) == [type |-> "content_delta", delta |-> acc]

\* the frame of a text delta; acc is assistantMessage after the accumulation
ContentDeltaChunk(acc, delta) == [type |-> "content_delta", delta |-> delta.text]

\* a faulty ToolCallChunk: the frame carries the row added last, not the table
MutToolCallChunk(tcs) == [type |-> "tool_call", toolCalls |-> <<tcs[Len(tcs)]>>]

\* the frame sent after a tool fragment was merged
ToolCallChunk(tcs) == [type |-> "tool_call", toolCalls |-> Snapshot(tcs)]

\* toolCall.result = content; toolCall.status = subtype === 'success' ? 'success' : 'error'
SetResult(row, resultMsg) ==
    [id |-> row.id, name |-> row.name, input |-> row.input,
     status |-> IF Str(resultMsg, "subtype") = "success" THEN "success" ELSE "error"]
        @@ Opt("result", "content" \in DOMAIN resultMsg, resultMsg.content)

\* error instanceof Error ? error.message : 'Failed to process request'
ErrorChunk(error) ==
    [type |-> "error",
     error |-> IF "message" \in DOMAIN error THEN error.message
               ELSE "Failed to process request"]

\* the TypeError of JSON.stringify(undefined).substring(0, 100)
PreviewTypeError ==
    [message |-> "Cannot read properties of undefined (reading 'substring')"]

\* the frame of a tool result; tcs is the table after the row was updated
ToolResultChunk(resultMsg, tcs) ==
    [type |-> "tool_result", toolUseId |-> resultMsg.tool_use_id,
     toolCalls |-> Snapshot(tcs)]
        @@ Opt("result", "content" \in DOMAIN resultMsg, resultMsg.content)

\* ---- history helpers (properties only)
NoFrags == [id \in ToolIds |-> <<>>]

\* the delta is a tool fragment: of type tool_use_delta, or bearing a tool id
IsToolFragment(delta) ==
    Str(delta, "type") = "tool_use_delta" \/ Has(delta, "tool_use_id")

\* the message consumed last was not a result message
NoResult == [none |-> TRUE]

\* no fragment has created or merged a row yet
NoMerge == [ids |-> <<>>, from |-> 0, final |-> FALSE, table |-> <<>>, created |-> FALSE]

\* the ids seen so far, a fragment bearing `id` included
SeeId(seen, id) ==
    IF \E k \in 1..Len(seen) : seen[k] = id THEN seen ELSE Append(seen, id)

RECURSIVE PartIds(_)
\* the ids of the tool_use parts of a final message that bear one, in order
PartIds(parts) ==
    IF parts = <<>> THEN <<>>
    ELSE (IF Str(Head(parts), "type") = "tool_use" /\ Has(Head(parts), "id")
          THEN <<Head(parts).id>> ELSE <<>>) \o PartIds(Tail(parts))

RECURSIVE SeeParts(_, _)
\* the ids seen so far, the tool_use parts of a final message included
SeeParts(parts, seen) ==
    IF PartIds(parts) = <<>> THEN seen
    ELSE SeeParts(Tail(parts),
                  IF Str(Head(parts), "type") = "tool_use" /\ Has(Head(parts), "id")
                  THEN SeeId(seen, Head(parts).id) ELSE seen)

RECURSIVE PartInputs(_, _)
\* the inputs of the tool_use parts of a final message, appended per id
PartInputs(parts, h) ==
    IF parts = <<>> THEN h
    ELSE LET part == Head(parts) IN
         PartInputs(Tail(parts),
            IF Str(part, "type") = "tool_use" /\ Has(part, "id") /\ "input" \in DOMAIN part
            THEN [h EXCEPT ![part.id] = Append(@, part.input)]
            ELSE h)

\* ------------------------------------------------------ Producer actions
PInit ==
    /\ pc = "streaming"
    /\ assistantMessage = ""
    /\ thinking = ""
    /\ toolCalls = <<>>
    /\ toolCallsMap = EmptyObj
    /\ usageMetadata = EmptyObj
    /\ frames = <<>>
    /\ closeCount = 0
    /\ nEvents = 0
    /\ hText = <<>>
    /\ hThink = <<>>
    /\ hThinkBase = 0
    /\ hFrags = NoFrags
    /\ hTools = FALSE
    /\ hSeen = <<>>
    /\ hMerge = NoMerge
    /\ hResult = NoResult
    /\ connected = TRUE
    /\ sendErrors = 0
    /\ hExit = ""

\* the iterator yields one more message
Yield ==
    /\ pc = "streaming"
    /\ nEvents < MaxEvents
    /\ nEvents' = nEvents + 1
    /\ UNCHANGED connected
    /\ UNCHANGED <<cvars, rvars, svars, gvars, lvars, xvars>>

\* the loop goes on to await the next message
Continue == UNCHANGED <<pc, closeCount, hExit>>

\* stream_event, event.type === 'content_block_start'
ContentBlockStart ==
    \E block \in Blocks :
        /\ Yield
        /\ Continue
        /\ thinking' = IF Str(block, "type") = "thinking" THEN "" ELSE thinking
        /\ hThink' = IF Str(block, "type") = "thinking" THEN <<>> ELSE hThink
        /\ hThinkBase' = IF Str(block, "type") = "thinking" THEN Len(frames) ELSE hThinkBase
        /\ hResult' = NoResult
        /\ UNCHANGED <<assistantMessage, toolCalls, toolCallsMap, usageMetadata, frames,
                       hText, hFrags, hTools, hSeen, hMerge, sendErrors>>

\* stream_event, event.type === 'content_block_delta': the three ifs in sequence
ContentBlockDelta ==
    \E delta \in Deltas :
        LET isThinking == Str(delta, "type") = "thinking_delta" /\ Has(delta, "thinking")
            th1 == IF isThinking THEN AppendThinking(thinking, delta) ELSE thinking
            fr1 == IF isThinking THEN sendChunk(frames, ThinkingChunk(th1)) ELSE frames
            isText == Str(delta, "type") = "text_delta" /\ Has(delta, "text")
            am1 == IF isText THEN assistantMessage \o delta.text ELSE assistantMessage
            fr2 == IF isText THEN sendChunk(fr1, ContentDeltaChunk(am1, delta)) ELSE fr1
            isTool == IsToolDelta(delta)
            tt == IF isTool THEN ToolDelta(toolCalls, toolCallsMap, delta)
                  ELSE [toolCalls |-> toolCalls, toolCallsMap |-> toolCallsMap]
            fr3 == IF isTool THEN sendChunk(fr2, ToolCallChunk(tt.toolCalls)) ELSE fr2
        IN  /\ Yield
            /\ Continue
            /\ thinking' = th1
            /\ assistantMessage' = am1
            /\ toolCalls' = tt.toolCalls
            /\ toolCallsMap' = tt.toolCallsMap
            /\ frames' = fr3
            /\ hThink' = IF isThinking THEN Append(hThink, delta.thinking) ELSE hThink
            /\ hText' = IF isText THEN Append(hText, delta.text) ELSE hText
            /\ hFrags' = IF isTool /\ "input" \in DOMAIN delta
                         THEN [hFrags EXCEPT ![DeltaToolId(delta)] = Append(@, delta.input)]
                         ELSE hFrags
            /\ hTools' = (hTools \/ IsToolFragment(delta))
            /\ hSeen' = IF isTool THEN SeeId(hSeen, DeltaToolId(delta)) ELSE hSeen
            /\ hMerge' = IF isTool
                         THEN [ids |-> <<DeltaToolId(delta)>>, from |-> Len(fr2),
                               final |-> FALSE, table |-> tt.toolCalls,
                               created |-> SeeId(hSeen, DeltaToolId(delta)) # hSeen]
                         ELSE hMerge
            /\ hResult' = NoResult
            /\ sendErrors' = Reported((IF isThinking THEN 1 ELSE 0)
                                        + (IF isText THEN 1 ELSE 0)
                                        + (IF isTool THEN 1 ELSE 0))
            /\ UNCHANGED <<usageMetadata, hThinkBase>>

\* stream_event, event.type === 'message_delta'
MessageDelta ==
    \E event \in MessageDeltas :
        LET usage == IF "usage" \in DOMAIN event.delta THEN event.delta.usage
                     ELSE IF "usage" \in DOMAIN event THEN event.usage
                     ELSE EmptyObj
        IN  /\ Yield
            /\ Continue
            /\ usageMetadata' = UpdateUsage(usageMetadata, usage)
            /\ hResult' = NoResult
            /\ UNCHANGED <<assistantMessage, thinking, toolCalls, toolCallsMap, frames,
                           hText, hThink, hThinkBase, hFrags, hTools, hSeen, hMerge,
                           sendErrors>>

\* message.type === 'system' (only logged)
SystemMessage ==
    /\ Yield
    /\ Continue
    /\ hResult' = NoResult
    /\ UNCHANGED <<assistantMessage, thinking, toolCalls, toolCallsMap, usageMetadata,
                   frames, hText, hThink, hThinkBase, hFrags, hTools, hSeen, hMerge,
                   sendErrors>>

\* message.type === 'assistant'
AssistantMessage ==
    \E m \in AssistantMessages :
        LET modelInfo == IF Has(m, "model") THEN m.model ELSE Model
            usage1 == IF "usage" \in DOMAIN m THEN UpdateUsage(usageMetadata, m.usage)
                      ELSE usageMetadata
            isArray == "content" \in DOMAIN m.message
            content == IF isArray THEN m.message.content ELSE <<>>
            am1 == Join(TextParts(content))
            fp == FinalParts(content, toolCalls, toolCallsMap, FALSE)
            fr1 == IF fp.hasNewToolCalls /\ Len(fp.toolCalls) > 0
                   THEN sendChunk(frames, ToolCallChunk(fp.toolCalls)) ELSE frames
            fr2 == IF am1 # ""
                   THEN sendChunk(fr1, Summary("assistant", am1, thinking, fp.toolCalls,
                                               modelInfo, usage1))
                   ELSE fr1
        IN  /\ Yield
            /\ Continue
            /\ usageMetadata' = usage1
            /\ assistantMessage' = IF isArray THEN am1 ELSE assistantMessage
            /\ toolCalls' = fp.toolCalls
            /\ toolCallsMap' = fp.toolCallsMap
            /\ frames' = IF isArray THEN fr2 ELSE frames
            /\ hFrags' = PartInputs(content, hFrags)
            /\ hTools' = (hTools \/ \E k \in 1..Len(content) :
                                       Str(content[k], "type") = "tool_use")
            /\ hSeen' = SeeParts(content, hSeen)
            /\ hMerge' = IF PartIds(content) # <<>>
                         THEN [ids |-> PartIds(content), from |-> Len(frames),
                               final |-> TRUE, table |-> fp.toolCalls,
                               created |-> SeeParts(content, hSeen) # hSeen]
                         ELSE hMerge
            /\ hResult' = NoResult
            /\ sendErrors' = Reported((IF isArray /\ fp.hasNewToolCalls
                                             /\ Len(fp.toolCalls) > 0 THEN 1 ELSE 0)
                                        + (IF isArray /\ am1 # "" THEN 1 ELSE 0))
            /\ UNCHANGED <<thinking, hText, hThink, hThinkBase>>

\* message.type === 'result'.  For a known id the row is updated first; building
\* the log preview then throws when content is undefined (JSON.stringify gives
\* undefined, .substring of it is a TypeError), which ends the loop in the catch
\* block; otherwise the tool_result frame is sent.
ResultMessage ==
    \E resultMsg \in ResultMessages :
        LET known == Has(resultMsg, "tool_use_id")
                        /\ resultMsg.tool_use_id \in DOMAIN toolCallsMap
            tcs1 == IF known
                    THEN [toolCalls EXCEPT ![toolCallsMap[resultMsg.tool_use_id]] =
                                                SetResult(@, resultMsg)]
                    ELSE toolCalls
            throws == known /\ "content" \notin DOMAIN resultMsg
        IN  /\ Yield
            /\ toolCalls' = tcs1
            /\ IF throws
               THEN /\ frames' = sendChunk(frames, ErrorChunk(PreviewTypeError))
                    /\ closeCount' = closeCount + 1
                    /\ pc' = "closed"
                    /\ hExit' = "threw"
               ELSE /\ frames' = IF known
                                 THEN sendChunk(frames, ToolResultChunk(resultMsg, tcs1))
                                 ELSE frames
                    /\ Continue
            /\ hTools' = (hTools \/ Has(resultMsg, "tool_use_id"))
            /\ hResult' = resultMsg
            /\ sendErrors' = Reported(IF known THEN 1 ELSE 0)
            /\ UNCHANGED <<assistantMessage, thinking, toolCallsMap, usageMetadata,
                           hText, hThink, hThinkBase, hFrags, hSeen, hMerge>>

\* a faulty IteratorDone: the done frame is sent from inside the loop, which goes on
MutIteratorDone ==
    /\ pc = "streaming"
    /\ nEvents < MaxEvents
    /\ nEvents' = nEvents + 1
    /\ frames' = Append(frames, [type |-> "done", content |-> assistantMessage,
                                 model |-> Model])
    /\ UNCHANGED <<pc, closeCount, hExit, assistantMessage, thinking, toolCalls,
                   toolCallsMap, usageMetadata, hText, hThink, hThinkBase, hFrags, hTools,
                   hSeen, hMerge, hResult, connected, sendErrors>>
    /\ UNCHANGED <<cvars, rvars, svars, gvars, lvars, xvars>>

\* the iterator is exhausted: the done frame, then the finally block
IteratorDone ==
    /\ pc = "streaming"
    /\ frames' = sendChunk(frames, Summary("done", assistantMessage, thinking, toolCalls,
                                           Model, usageMetadata))
    /\ closeCount' = closeCount + 1
    /\ pc' = "closed"
    /\ hExit' = "exhausted"
    /\ sendErrors' = Reported(1)
    /\ UNCHANGED <<assistantMessage, thinking, toolCalls, toolCallsMap, usageMetadata,
                   nEvents, hText, hThink, hThinkBase, hFrags, hTools, hSeen, hMerge,
                   hResult, connected>>
    /\ UNCHANGED <<cvars, rvars, svars, gvars, lvars, xvars>>

\* a faulty IteratorThrows: the done frame is sent after the error frame
MutIteratorThrowsDone ==
    \E error \in Thrown :
        /\ pc = "streaming"
        /\ frames' = Append(Append(frames, ErrorChunk(error)),
                            [type |-> "done", content |-> assistantMessage,
                             model |-> Model])
        /\ closeCount' = closeCount + 1
        /\ pc' = "closed"
        /\ hExit' = "raised"
        /\ sendErrors' = Reported(1)
        /\ UNCHANGED <<assistantMessage, thinking, toolCalls, toolCallsMap, usageMetadata,
                       nEvents, hText, hThink, hThinkBase, hFrags, hTools, hSeen, hMerge,
                       hResult, connected>>
        /\ UNCHANGED <<cvars, rvars, svars, gvars, lvars, xvars>>

\* a faulty IteratorThrows: the catch block closes the stream, and so does finally
MutIteratorThrowsCloseTwice ==
    \E error \in Thrown :
        /\ pc = "streaming"
        /\ frames' = Append(frames, ErrorChunk(error))
        /\ closeCount' = closeCount + 2
        /\ pc' = "closed"
        /\ hExit' = "raised"
        /\ sendErrors' = Reported(1)
        /\ UNCHANGED <<assistantMessage, thinking, toolCalls, toolCallsMap, usageMetadata,
                       nEvents, hText, hThink, hThinkBase, hFrags, hTools, hSeen, hMerge,
                       hResult, connected>>
        /\ UNCHANGED <<cvars, rvars, svars, gvars, lvars, xvars>>

\* the iterator throws: the catch block, then the finally block
IteratorThrows ==
    \E error \in Thrown :
        /\ pc = "streaming"
        /\ frames' = sendChunk(frames, ErrorChunk(error))
        /\ closeCount' = closeCount + 1
        /\ pc' = "closed"
        /\ hExit' = "raised"
        /\ sendErrors' = Reported(1)
        /\ UNCHANGED <<assistantMessage, thinking, toolCalls, toolCallsMap, usageMetadata,
                       nEvents, hText, hThink, hThinkBase, hFrags, hTools, hSeen, hMerge,
                       hResult, connected>>
        /\ UNCHANGED <<cvars, rvars, svars, gvars, lvars, xvars>>

Next ==
    \/ ContentBlockStart
    \/ ContentBlockDelta
    \/ MessageDelta
    \/ SystemMessage
    \/ AssistantMessage
    \/ ResultMessage
    \/ IteratorDone
    \/ IteratorThrows

\* the client goes away while start() is in its loop: the response stream is
\* cancelled, and from then on controller.enqueue and controller.close throw
ClientDisconnects ==
    /\ pc = "streaming"
    /\ connected
    /\ connected' = FALSE
    /\ UNCHANGED <<pc, assistantMessage, thinking, toolCalls, toolCallsMap, usageMetadata,
                   frames, closeCount, nEvents, hText, hThink, hThinkBase, hFrags, hTools,
                   hSeen, hMerge, hResult, sendErrors, hExit>>
    /\ UNCHANGED <<cvars, rvars, svars, gvars, lvars, xvars>>

DisconnectNext ==
    \/ Next
    \/ ClientDisconnects

\* ------------------------------------------------------- Consumer inputs
\* rows of the tool table as they arrive inside frames
RowT1 == [id |-> "t1", name |-> "search", input |-> [a |-> 1], status |-> "pending"]
RowT2 == [id |-> "t2", name |-> "", input |-> EmptyObj, status |-> "pending"]
RowT1Ok == [RowT1 EXCEPT !.status = "success"] @@ [result |-> "r1"]

\* the frames one response can be made of, as parsed from a data: line
ContentFrames ==
    { [type |-> "content_delta", delta |-> "a"],
      [type |-> "content_delta", delta |-> "b"],
      [type |-> "content_delta", delta |-> ""],
      [type |-> "content", content |-> "a"] }

ThinkingFrames == {[type |-> "thinking", content |-> "Let"]}

ToolCallFrames ==
    { [type |-> "tool_call", toolCalls |-> <<RowT1>>],
      [type |-> "tool_call", toolCalls |-> <<RowT1, RowT2>>],
      [type |-> "tool_call", toolCalls |-> <<RowT2>>],
      [type |-> "tool_call", toolCalls |-> <<>>] }

\* the tool_result frames the Producer sends for the results of tool t1
ToolResultFrames ==
    { ToolResultChunk(resultMsg, <<SetResult(RowT1, resultMsg)>>) :
        resultMsg \in {m \in ResultMessages :
                          Str(m, "tool_use_id") = "t1" /\ "content" \in DOMAIN m} }

TerminalFrames ==
    { [type |-> "done", content |-> "ab", model |-> Model],
      [type |-> "done", content |-> "a", model |-> Model, toolCalls |-> <<RowT1, RowT2>>,
          usage |-> [input_tokens |-> 1, output_tokens |-> 2]],
      [type |-> "assistant", content |-> "a", model |-> Model, toolCalls |-> <<RowT1Ok>>] }

ErrorFrames == {[type |-> "error", error |-> "upstream failed"], [type |-> "error"]}

\* what the user can type and send
Inputs == {"hi"}

\* contentMessageId = null
Null == [null |-> TRUE]

\* `${prefix}-${Date.now()}`
MkId(prefix, ms) == [prefix |-> prefix, ms |-> ms]

CInit ==
    /\ messages = <<>>
    /\ isLoading = FALSE
    /\ cpc = "idle"
    /\ contentAccumulator = ""
    /\ contentMessageId = Null
    /\ responseMetadata = EmptyObj
    /\ now = 0
    /\ data = EmptyObj
    /\ nSteps = 0
    /\ hDeltas = <<>>
    /\ hBase = 0

\* the Consumer in the middle of a response: the user's entry, the content entry
\* of the first turn with text 'a', and the assistant frame of that turn applied
TurnInit ==
    /\ messages = <<[id |-> MkId("user", 0), role |-> "user", content |-> "hi",
                      eventType |-> "user_message", timestamp |-> 0],
                    [id |-> MkId("content", 0), role |-> "assistant", content |-> "a",
                      eventType |-> "content_delta", timestamp |-> 0]>>
    /\ isLoading = TRUE
    /\ cpc = "reading"
    /\ contentAccumulator = ""
    /\ contentMessageId = Null
    /\ responseMetadata = [model |-> Model]
    /\ now = 0
    /\ data = [type |-> "assistant", content |-> "a", model |-> Model,
               toolCalls |-> <<RowT1Ok>>]
    /\ nSteps = 0
    /\ hDeltas = <<>>
    /\ hBase = 2

\* a faulty AppendMessage: the new entry is put first
MutAppendMessage(prev, message) == <<message>> \o prev

\* setMessages(prev => [...prev, message])
AppendMessage(prev, message) == Append(prev, message)

\* messages.map((message, index) => ...) of the render: one element per entry, in
\* the order of the array, keyed by the entry's id; timestamp is not read
Rendered(msgs) ==
    [i \in 1..Len(msgs) |-> [key |-> msgs[i].id, eventType |-> msgs[i].eventType]]

\* a faulty UpdateContent: every delta appends an entry of its own
MutUpdateContent(prev, id, content) ==
    Append(prev, [id |-> id, role |-> "assistant", content |-> content,
                  eventType |-> "content_delta", timestamp |-> 0])

\* setMessages(prev => prev.map(msg => msg.id === id ? { ...msg, content } : msg))
UpdateContent(prev, id, content) ==
    [i \in 1..Len(prev) |->
        IF prev[i].id = id THEN Spread(prev[i], [content |-> content]) ELSE prev[i]]

\* the message of the first content delta of a response segment
ContentMessage(id, content, ms) ==
    [id |-> id, role |-> "assistant", content |-> content,
     eventType |-> "content_delta", timestamp |-> ms]

\* the message of a thinking frame
ThinkingMessage(d, ms) ==
    [id |-> MkId("thinking", ms), role |-> "assistant", eventType |-> "thinking",
     timestamp |-> ms]
        @@ Opt("thinking", "content" \in DOMAIN d, d.content)

\* the message of a tool_call frame
ToolCallMessage(d, ms) ==
    [id |-> MkId("tool-call", ms), role |-> "assistant", toolCall |-> d.toolCalls[1],
     eventType |-> "tool_call", timestamp |-> ms]

\* the message of a tool_result frame
ToolResultMessage(d, ms) ==
    [id |-> MkId("tool-result", ms), role |-> "assistant",
     toolCall |-> [id |-> Str(d, "toolUseId"), name |-> "Tool Result",
                   input |-> EmptyObj, status |-> "success"]
                     @@ Opt("result", "result" \in DOMAIN d, d.result),
     eventType |-> "tool_result", timestamp |-> ms]

\* a faulty ErrorMessage: the entry shows a fixed text instead of the message
MutErrorMessage(text, ms) ==
    [id |-> MkId("error", ms), role |-> "assistant", content |-> "An error occurred",
     eventType |-> "error", timestamp |-> ms]

\* the message of an error frame, and of the catch block of sendMessage
ErrorMessage(text, ms) ==
    [id |-> MkId("error", ms), role |-> "assistant", content |-> text,
     eventType |-> "error", timestamp |-> ms]

\* a request's preamble up to the read loop
SendMessage ==
    \E text \in Inputs :
        /\ cpc = "idle"
        /\ ~isLoading
        /\ nSteps < MaxSteps
        /\ messages' = AppendMessage(messages,
                          [id |-> MkId("user", now), role |-> "user", content |-> text,
                           eventType |-> "user_message", timestamp |-> now])
        /\ isLoading' = TRUE
        /\ cpc' = "reading"
        /\ contentAccumulator' = ""
        /\ contentMessageId' = Null
        /\ responseMetadata' = EmptyObj
        /\ nSteps' = nSteps + 1
        /\ hDeltas' = <<>>
        /\ hBase' = Len(messages) + 1
        /\ UNCHANGED <<now, data>>
        /\ UNCHANGED <<pvars, rvars, svars, gvars, lvars, xvars>>

\* one complete data: line was parsed into d
Line(d) ==
    /\ cpc = "reading"
    /\ nSteps < MaxSteps
    /\ nSteps' = nSteps + 1
    /\ data' = d
    /\ UNCHANGED <<isLoading, cpc, now>>
    /\ UNCHANGED <<pvars, rvars, svars, gvars, lvars, xvars>>

\* data.type === 'content_delta' || data.type === 'content'
ContentDelta ==
    \E d \in ContentFrames :
        LET delta == IF Has(d, "delta") THEN d.delta ELSE Str(d, "content")
            acc == contentAccumulator \o delta
        IN  /\ Line(d)
            /\ contentAccumulator' = acc
            /\ IF contentMessageId = Null
               THEN /\ contentMessageId' = MkId("content", now)
                    /\ messages' = AppendMessage(messages,
                                      ContentMessage(MkId("content", now), acc, now))
               ELSE /\ contentMessageId' = contentMessageId
                    /\ messages' = UpdateContent(messages, contentMessageId, acc)
            /\ hDeltas' = Append(hDeltas, delta)
            /\ UNCHANGED <<responseMetadata, hBase>>

\* data.type === 'thinking'
ThinkingFrame ==
    \E d \in ThinkingFrames :
        /\ Line(d)
        /\ messages' = AppendMessage(messages, ThinkingMessage(d, now))
        /\ UNCHANGED <<contentAccumulator, contentMessageId, responseMetadata,
                       hDeltas, hBase>>

\* data.type === 'tool_call' && data.toolCalls && data.toolCalls.length > 0
ToolCallFrame ==
    \E d \in ToolCallFrames :
        /\ Line(d)
        /\ messages' = IF "toolCalls" \in DOMAIN d /\ Len(d.toolCalls) > 0
                       THEN AppendMessage(messages, ToolCallMessage(d, now))
                       ELSE messages
        /\ UNCHANGED <<contentAccumulator, contentMessageId, responseMetadata,
                       hDeltas, hBase>>

\* data.type === 'tool_result'
ToolResultFrame ==
    \E d \in ToolResultFrames :
        /\ Line(d)
        /\ messages' = AppendMessage(messages, ToolResultMessage(d, now))
        /\ UNCHANGED <<contentAccumulator, contentMessageId, responseMetadata,
                       hDeltas, hBase>>

\* data.type === 'done' || data.type === 'assistant'
TerminalFrame ==
    \E d \in TerminalFrames :
        LET m1 == Spread(responseMetadata, Opt("model", Has(d, "model"), d.model))
            m2 == IF "usage" \in DOMAIN d
                  THEN Spread(m1, Opt("inputTokens", "input_tokens" \in DOMAIN d.usage,
                                      d.usage.input_tokens)
                                  @@ Opt("outputTokens", "output_tokens" \in DOMAIN d.usage,
                                         d.usage.output_tokens))
                  ELSE m1
        IN  /\ Line(d)
            /\ responseMetadata' = m2
            /\ contentAccumulator' = ""
            /\ contentMessageId' = Null
            /\ hDeltas' = <<>>
            /\ hBase' = Len(messages)
            /\ UNCHANGED messages

\* data.type === 'error'
ErrorFrame ==
    \E d \in ErrorFrames :
        /\ Line(d)
        /\ messages' = AppendMessage(messages,
                          ErrorMessage(IF Has(d, "error") THEN d.error
                                       ELSE "An error occurred", now))
        /\ UNCHANGED <<contentAccumulator, contentMessageId, responseMetadata,
                       hDeltas, hBase>>

\* reader.read() reports done: the loop ends and the finally block runs
StreamEnd ==
    /\ cpc = "reading"
    /\ isLoading' = FALSE
    /\ cpc' = "idle"
    /\ UNCHANGED <<messages, contentAccumulator, contentMessageId, responseMetadata,
                   now, data, nSteps, hDeltas, hBase>>
    /\ UNCHANGED <<pvars, rvars, svars, gvars, lvars, xvars>>

\* the millisecond clock advances
Tick ==
    /\ now < MaxClock
    /\ now' = now + 1
    /\ UNCHANGED <<messages, isLoading, cpc, contentAccumulator, contentMessageId,
                   responseMetadata, data, nSteps, hDeltas, hBase>>
    /\ UNCHANGED <<pvars, rvars, svars, gvars, lvars, xvars>>

ConsumerNext ==
    \/ SendMessage
    \/ ContentDelta
    \/ ThinkingFrame
    \/ ToolCallFrame
    \/ ToolResultFrame
    \/ TerminalFrame
    \/ ErrorFrame
    \/ StreamEnd
    \/ Tick

\* ------------------------------------------------- Consumer read loop
\* Lines of the response body of one request.
MaxLines == 3

\* The body is a sequence of characters; the JSON text of a frame is "{", one
\* character standing for its members, "}".
NL == "\n"

\* 'data: '
DataPrefix == <<"d", "a", "t", "a", ":", " ">>

\* the frames whose JSON text the body may hold
FrameOf ==
    [A |-> [type |-> "content_delta", delta |-> "a"],
     B |-> [type |-> "content_delta", delta |-> "b"],
     D |-> [type |-> "done", content |-> "ab", model |-> Model]]

\* JSON.stringify(data)
Stringify(k) == <<"{", k, "}">>

\* sendChunk's encoding of a frame: `data: ${JSON.stringify(data)}\n\n`
Encode(k) == DataPrefix \o Stringify(k) \o <<NL, NL>>

\* what a body is made of: encoded frames, a data: line whose JSON is cut short,
\* and a line that is not a data: line
WireItems ==
    {Encode(k) : k \in DOMAIN FrameOf}
      \cup { DataPrefix \o <<"{", "A">> \o <<NL, NL>>, <<":", NL>> }

RECURSIVE WiresOfLen(_)
WiresOfLen(n) ==
    IF n = 0 THEN {<<>>} ELSE {w \o it : w \in WiresOfLen(n - 1), it \in WireItems}

\* the bodies: up to MaxLines items, possibly followed by a line left unfinished
Wires ==
    UNION {WiresOfLen(n) : n \in 0..MaxLines}
      \cup UNION {{w \o DataPrefix \o Stringify("B") : w \in WiresOfLen(n)} :
                     n \in 0..(MaxLines - 1)}

RECURSIVE Split(_)
\* buffer.split('\n')
Split(str) ==
    IF \A i \in 1..Len(str) : str[i] # NL THEN <<str>>
    ELSE LET i == CHOOSE i \in 1..Len(str) :
                     str[i] = NL /\ \A j \in 1..(i - 1) : str[j] # NL
         IN  <<SubSeq(str, 1, i - 1)>> \o Split(SubSeq(str, i + 1, Len(str)))

\* line.startsWith('data: ')
IsDataLine(line) ==
    Len(line) >= Len(DataPrefix) /\ SubSeq(line, 1, Len(DataPrefix)) = DataPrefix

\* line.slice(6)
Payload(line) == SubSeq(line, Len(DataPrefix) + 1, Len(line))

\* JSON.parse succeeds on this text
Parses(text) ==
    Len(text) = 3 /\ text[1] = "{" /\ text[3] = "}" /\ text[2] \in DOMAIN FrameOf

\* JSON.parse(text), for a text it succeeds on
Parse(text) == FrameOf[text[2]]

\* a faulty ParseError: the catch block shows the failure in the timeline
MutParseError(line, ms) ==
    <<[op |-> "append", message |-> ErrorMessage("Error parsing SSE data", ms)]>>

\* the updaters queued by the catch block of a line: none, it only logs
ParseError(line, ms) == <<>>

\* responseMetadata after the terminal branch captured model and usage
CaptureMetadata(meta, d) ==
    LET m1 == Spread(meta, Opt("model", Has(d, "model"), d.model)) IN
    IF "usage" \in DOMAIN d
    THEN Spread(m1, Opt("inputTokens", "input_tokens" \in DOMAIN d.usage,
                        d.usage.input_tokens)
                    @@ Opt("outputTokens", "output_tokens" \in DOMAIN d.usage,
                           d.usage.output_tokens))
    ELSE m1

\* The dispatch on data.type, as far as it does not depend on rendering: the new
\* accumulator, id and metadata, and the updaters passed to setMessages.  The
\* updater of a later content delta reads contentMessageId and contentAccumulator
\* when it runs, so it is queued without values.
HandleFrame(acc, id, meta, d, ms) ==
    LET type == Str(d, "type")
        same == [acc |-> acc, id |-> id, meta |-> meta, terminal |-> FALSE]
    IN
    IF type \in {"content_delta", "content"}
    THEN LET delta == IF Has(d, "delta") THEN d.delta ELSE Str(d, "content")
             acc1 == acc \o delta
         IN  IF id = Null
             THEN [same EXCEPT !.acc = acc1, !.id = MkId("content", ms)]
                    @@ [updaters |-> <<[op |-> "append", message |->
                                          ContentMessage(MkId("content", ms), acc1, ms)]>>]
             ELSE [same EXCEPT !.acc = acc1] @@ [updaters |-> <<[op |-> "content"]>>]
    ELSE IF type = "thinking"
    THEN same @@ [updaters |-> <<[op |-> "append", message |-> ThinkingMessage(d, ms)]>>]
    ELSE IF type = "tool_call" /\ "toolCalls" \in DOMAIN d /\ Len(d.toolCalls) > 0
    THEN same @@ [updaters |-> <<[op |-> "append", message |-> ToolCallMessage(d, ms)]>>]
    ELSE IF type = "tool_result"
    THEN same @@ [updaters |-> <<[op |-> "append", message |-> ToolResultMessage(d, ms)]>>]
    ELSE IF type \in {"done", "assistant"}
    THEN [same EXCEPT !.terminal = TRUE, !.meta = CaptureMetadata(meta, d)]
            @@ [updaters |-> <<>>]
    ELSE IF type = "error"
    THEN same @@ [updaters |-> <<[op |-> "append", message |->
                                    ErrorMessage(IF Has(d, "error") THEN d.error
                                                 ELSE "An error occurred", ms)]>>]
    ELSE same @@ [updaters |-> <<>>]

\* an updater run on the state prev, contentMessageId being id and
\* contentAccumulator being acc at that moment
RunUpdater(prev, u, id, acc) ==
    IF u.op = "append" THEN AppendMessage(prev, u.message)
    ELSE IF "id" \in DOMAIN u THEN UpdateContent(prev, u.id, u.content)
    ELSE UpdateContent(prev, id, acc)

RECURSIVE RunUpdaters(_, _, _, _)
\* a render runs the queued updaters in order
RunUpdaters(prev, queue, id, acc) ==
    IF queue = <<>> THEN prev
    ELSE RunUpdaters(RunUpdater(prev, Head(queue), id, acc), Tail(queue), id, acc)

\* an updater computed at the setMessages call (the queue being empty): the
\* variables it reads have the values of that moment
Bound(u, id, acc) ==
    IF u.op = "content" THEN [op |-> "content", id |-> id, content |-> acc] ELSE u

\* the frames applied one at a time, each rendered before the next (properties only)
RefApply(ref, d, ms) ==
    LET h == HandleFrame(ref.acc, ref.id, EmptyObj, d, ms) IN
    [messages |-> RunUpdaters(ref.messages, h.updaters, h.id, h.acc),
     acc |-> IF h.terminal THEN "" ELSE h.acc,
     id |-> IF h.terminal THEN Null ELSE h.id]

\* the read loop variables while no body is being read (Spec, ConsumerSpec, PostSpec)
SInit ==
    /\ wire = <<>>
    /\ pos = 0
    /\ buffer = <<>>
    /\ lines = <<>>
    /\ pending = <<>>
    /\ sessionId = Null
    /\ awaiting = FALSE
    /\ hApplied = <<>>
    /\ hRef = [messages |-> <<>>, acc |-> "", id |-> Null]

\* the user message of the request whose body is read
UserMessage ==
    [id |-> MkId("user", 0), role |-> "user", content |-> "hi",
     eventType |-> "user_message", timestamp |-> 0]

\* sendMessage has sent the request and is about to read the body: any body, with
\* or without a logging session
ReaderInit ==
    /\ messages = <<UserMessage>>
    /\ isLoading = TRUE
    /\ cpc = "reading"
    /\ contentAccumulator = ""
    /\ contentMessageId = Null
    /\ responseMetadata = EmptyObj
    /\ now = 0
    /\ data = EmptyObj
    /\ nSteps = 0
    /\ hDeltas = <<>>
    /\ hBase = 1
    /\ wire \in Wires
    /\ pos = 0
    /\ buffer = <<>>
    /\ lines = <<>>
    /\ pending = <<>>
    /\ sessionId \in {Null, [session |-> "s1"]}
    /\ awaiting = FALSE
    /\ hApplied = <<>>
    /\ hRef = [messages |-> <<UserMessage>>, acc |-> "", id |-> Null]

\* what the read loop leaves alone
ReaderFrame ==
    /\ UNCHANGED <<wire, sessionId, now, nSteps, hDeltas, hBase>>
    /\ UNCHANGED <<pvars, rvars, gvars, lvars, xvars>>

\* await reader.read() delivers the next bytes, cut anywhere; they are appended to
\* the buffer, which is split into lines, the last piece staying in the buffer
ReadChunk ==
    \E n \in 1..(Len(wire) - pos) :
        LET pieces == Split(buffer \o SubSeq(wire, pos + 1, pos + n)) IN
        /\ cpc = "reading"
        /\ lines = <<>>
        /\ ~awaiting
        /\ pos' = pos + n
        /\ lines' = SubSeq(pieces, 1, Len(pieces) - 1)
        /\ buffer' = pieces[Len(pieces)]
        /\ UNCHANGED <<messages, isLoading, cpc, contentAccumulator, contentMessageId,
                       responseMetadata, data, pending, awaiting, hApplied, hRef>>
        /\ ReaderFrame

\* one turn of `for (const line of lines)`.  The first updater queued since the
\* last render may be computed at the call (eager) or left to the render.
ApplyLine ==
    \E eager \in BOOLEAN :
        LET line == Head(lines)
            d == Parse(Payload(line))
            h == HandleFrame(contentAccumulator, contentMessageId, responseMetadata,
                             d, now)
        IN
        /\ cpc = "reading"
        /\ lines # <<>>
        /\ ~awaiting
        /\ lines' = Tail(lines)
        /\ IF ~IsDataLine(line)
           THEN UNCHANGED <<contentAccumulator, contentMessageId, responseMetadata, data,
                            pending, awaiting, hApplied, hRef>>
           ELSE IF ~Parses(Payload(line))
           THEN /\ pending' = pending \o ParseError(line, now)
                /\ UNCHANGED <<contentAccumulator, contentMessageId, responseMetadata,
                               data, awaiting, hApplied, hRef>>
           ELSE /\ data' = d
                /\ pending' = IF eager /\ pending = <<>> /\ h.updaters # <<>>
                              THEN <<Bound(h.updaters[1], h.id, h.acc)>>
                              ELSE pending \o h.updaters
                /\ responseMetadata' = h.meta
                /\ IF h.terminal
                   THEN IF sessionId # Null /\ contentAccumulator # ""
                        THEN /\ awaiting' = TRUE
                             /\ UNCHANGED <<contentAccumulator, contentMessageId>>
                        ELSE /\ awaiting' = FALSE
                             /\ contentAccumulator' = ""
                             /\ contentMessageId' = Null
                   ELSE /\ contentAccumulator' = h.acc
                        /\ contentMessageId' = h.id
                        /\ UNCHANGED awaiting
                /\ hApplied' = Append(hApplied, d)
                /\ hRef' = RefApply(hRef, d, now)
        /\ UNCHANGED <<messages, isLoading, cpc, pos, buffer>>
        /\ ReaderFrame

\* logMessage has settled: the terminal branch resets the open content entry
ResumeAfterLog ==
    /\ awaiting
    /\ awaiting' = FALSE
    /\ contentAccumulator' = ""
    /\ contentMessageId' = Null
    /\ UNCHANGED <<messages, isLoading, cpc, responseMetadata, data, pos, buffer, lines,
                   pending, hApplied, hRef>>
    /\ ReaderFrame

\* React renders while sendMessage is suspended in an await: the queued updaters
\* run in order and give the new timeline
Render ==
    /\ pending # <<>>
    /\ lines = <<>> \/ awaiting \/ cpc = "idle"
    /\ messages' = RunUpdaters(messages, pending, contentMessageId, contentAccumulator)
    /\ pending' = <<>>
    /\ UNCHANGED <<isLoading, cpc, contentAccumulator, contentMessageId, responseMetadata,
                   data, pos, buffer, lines, awaiting, hApplied, hRef>>
    /\ ReaderFrame

\* reader.read() reports done: the loop ends and the finally block runs
ReadDone ==
    /\ cpc = "reading"
    /\ lines = <<>>
    /\ ~awaiting
    /\ pos = Len(wire)
    /\ cpc' = "idle"
    /\ isLoading' = FALSE
    /\ UNCHANGED <<messages, contentAccumulator, contentMessageId, responseMetadata,
                   data, pos, buffer, lines, pending, awaiting, hApplied, hRef>>
    /\ ReaderFrame

ReaderNext ==
    \/ ReadChunk
    \/ ApplyLine
    \/ ResumeAfterLog
    \/ Render
    \/ ReadDone

\* ---------------------------------------------------- chat endpoint (POST)
\* Requests the upstream runtime may make of canUseTool.
MaxRequests == 2

\* Strings that the code inspects character by character are sequences of
\* one-character strings.
Chars(k) ==
    CASE k = "sk"        -> <<"s", "k">>
      [] k = "blank"     -> <<" ", " ">>
      [] k = "padded"    -> <<" ", "s", "k", " ">>
      [] k = "web_search" -> <<"w", "e", "b", "_", "s", "e", "a", "r", "c", "h">>
      [] k = "web_search_20250305" ->
            <<"w", "e", "b", "_", "s", "e", "a", "r", "c", "h", "_",
              "2", "0", "2", "5", "0", "3", "0", "5">>
      [] k = "WebSearch" -> <<"W", "e", "b", "S", "e", "a", "r", "c", "h">>
      [] k = "webSearch" -> <<"w", "e", "b", "S", "e", "a", "r", "c", "h">>
      [] k = "web-search" -> <<"w", "e", "b", "-", "s", "e", "a", "r", "c", "h">>
      [] k = "websearch" -> <<"w", "e", "b", "s", "e", "a", "r", "c", "h">>
      [] k = "calc"      -> <<"c", "a", "l", "c">>
      [] k = "mail"      -> <<"m", "a", "i", "l">>
      [] k = "rm"        -> <<"r", "m">>
      [] OTHER           -> <<>>

\* process.env.ANTHROPIC_API_KEY: unset (no key field), '', blanks, a key, a padded key
ApiKeys ==
    { EmptyObj, [key |-> <<>>], [key |-> Chars("blank")], [key |-> Chars("sk")],
      [key |-> Chars("padded")] }

RECURSIVE TrimStart(_)
TrimStart(str) == IF str # <<>> /\ Head(str) = " " THEN TrimStart(Tail(str)) ELSE str

RECURSIVE TrimEnd(_)
TrimEnd(str) ==
    IF str # <<>> /\ str[Len(str)] = " " THEN TrimEnd(SubSeq(str, 1, Len(str) - 1)) ELSE str

\* String.prototype.trim
Trim(str) == TrimEnd(TrimStart(str))

\* a faulty KeyMissing: the key is not trimmed
MutKeyMissing(env) == "key" \notin DOMAIN env \/ env.key = <<>>

\* !apiKey || apiKey.trim() === ''
KeyMissing(env) == "key" \notin DOMAIN env \/ env.key = <<>> \/ Trim(env.key) = <<>>

\* JSON values of the request body, tagged with their JavaScript type
JString(v) == [t |-> "string", v |-> v]
JNumber(v) == [t |-> "number", v |-> v]
JArray(v) == [t |-> "array", v |-> v]
Turn(role, content) == [role |-> role, content |-> content]

\* what request.json() does with the request body: it rejects ("invalid": the text
\* is not JSON), or resolves to null, to a primitive or to an object
Bodies ==
    { [kind |-> "invalid"], [kind |-> "null"], [kind |-> "primitive"] }
      \cup {[kind |-> "object", fields |-> f] : f \in
              { EmptyObj,
                [message |-> JString("hi")],
                [message |-> JString("")],
                [message |-> JNumber(5)],
                [messages |-> JString("hi")],
                [messages |-> JString("x"), message |-> JString("hi")],
                [messages |-> JArray(<<>>)],
                [messages |-> JArray(<<Turn("user", "hi")>>)],
                [messages |-> JArray(<<Turn("assistant", "yo")>>)],
                [messages |-> JArray(<<Turn("user", "hi"), Turn("assistant", "yo"),
                                       Turn("user", "more")>>)],
                [messages |-> JArray(<<Turn("user", "hi"), Turn("assistant", "yo")>>)],
                [prompt |-> JString("hi")] }}

\* the part of the agent configuration that POST reads for the tool options
Configs ==
    {[services |-> [webSearch |-> w]] : w \in BOOLEAN}
      \cup {[services |-> [webSearch |-> w, tools |-> t]] :
                w \in BOOLEAN,
                t \in { <<>>,
                        <<[name |-> Chars("calc"), enabled |-> TRUE]>>,
                        <<[name |-> Chars("calc"), enabled |-> TRUE],
                          [name |-> Chars("mail"), enabled |-> FALSE]>> }}

\* NextResponse.json(obj, { status })
JsonResponse(status, obj) == [kind |-> "json", status |-> status, body |-> obj]

\* new Response(stream, { headers: text/event-stream })
StreamResponse == [kind |-> "stream", status |-> 200]

\* the outer catch of POST
Caught(message) == JsonResponse(500, [error |-> message])

\* body.messages && Array.isArray(body.messages)
HasMessagesArray(b) ==
    b.kind = "object" /\ "messages" \in DOMAIN b.fields /\ b.fields.messages.t = "array"

\* body.message && typeof body.message === 'string'
HasMessageString(b) ==
    /\ b.kind = "object"
    /\ "message" \in DOMAIN b.fields
    /\ b.fields.message.t = "string"
    /\ b.fields.message.v # ""

\* the messages array POST works on
RequestMessages(b) ==
    IF HasMessagesArray(b) THEN b.fields.messages.v
    ELSE <<Turn("user", b.fields.message.v)>>

IsUser(msg) == Str(msg, "role") = "user"

\* messages.filter(msg => msg.role === 'user').pop(): is there one
HasUserMessage(msgs) == SelectSeq(msgs, IsUser) # <<>>

\* `${value}` of a turn's content; an undefined content gives 'undefined'
Template(msg) == IF "content" \in DOMAIN msg THEN msg.content ELSE "undefined"

\* msg.role === 'user' ? 'User' : 'Assistant'
RoleLabel(msg) == IF Str(msg, "role") = "user" THEN "User" ELSE "Assistant"

RECURSIVE JoinLines(_)
\* previousMessages.map(msg => `${role}: ${msg.content}`).join('\n\n')
JoinLines(msgs) ==
    IF msgs = <<>> THEN ""
    ELSE RoleLabel(Head(msgs)) \o ": " \o Template(Head(msgs))
            \o (IF Len(msgs) > 1 THEN "\n\n" ELSE "") \o JoinLines(Tail(msgs))

\* messages.filter(msg => msg.role === 'user').pop()
LastUserMessage(msgs) == SelectSeq(msgs, IsUser)[Len(SelectSeq(msgs, IsUser))]

\* conversationContext: messages.slice(0, -1), labelled and joined
ConversationContext(msgs) ==
    IF Len(msgs) > 1 THEN JoinLines(SubSeq(msgs, 1, Len(msgs) - 1)) \o "\n\n" ELSE ""

\* fullPrompt
FullPrompt(msgs) ==
    ConversationContext(msgs) \o "User: " \o Template(LastUserMessage(msgs))

RECURSIVE EnabledNames(_)
\* config.services.tools.filter(tool => tool.enabled).map(tool => tool.name)
EnabledNames(tools) ==
    IF tools = <<>> THEN <<>>
    ELSE (IF Head(tools).enabled THEN <<Head(tools).name>> ELSE <<>>)
            \o EnabledNames(Tail(tools))

\* const allowedTools
AllowedTools(cfg) ==
    IF "tools" \in DOMAIN cfg.services /\ Len(cfg.services.tools) > 0
    THEN EnabledNames(cfg.services.tools) ELSE <<>>

\* the tool options of the query() call; an undefined option is absent
Options(cfg) ==
    [permissionMode |-> IF cfg.services.webSearch THEN "bypassPermissions" ELSE "default"]
        @@ Opt("tools", cfg.services.webSearch,
               <<[type |-> "web_search_20250305", name |-> "web_search", max_uses |-> 5]>>)
        @@ Opt("allowedTools", ~cfg.services.webSearch /\ Len(AllowedTools(cfg)) > 0,
               AllowedTools(cfg))
        @@ Opt("canUseTool", cfg.services.webSearch, "function")

\* one character of toLowerCase()
Lower(c) == CASE c = "W" -> "w" [] c = "S" -> "s" [] OTHER -> c

RECURSIVE Normalize(_)
\* toolName.toLowerCase().replace(/[-_]/g, '')
Normalize(name) ==
    IF name = <<>> THEN <<>>
    ELSE (IF Head(name) \in {"-", "_"} THEN <<>> ELSE <<Lower(Head(name))>>)
            \o Normalize(Tail(name))

WebSearchVariants ==
    { Chars("web_search"), Chars("web_search_20250305"), Chars("WebSearch"),
      Chars("webSearch"), Chars("web-search"), Chars("websearch") }

\* webSearchVariants.some(variant => normalised variant === normalizedToolName)
IsWebSearch(toolName) ==
    \E variant \in WebSearchVariants : Normalize(variant) = Normalize(toolName)

Range(seq) == {seq[i] : i \in 1..Len(seq)}

\* the body of the canUseTool callback
canUseTool(cfg, toolName) ==
    IF IsWebSearch(toolName) THEN [behavior |-> "allow"]
    ELSE IF toolName \in Range(AllowedTools(cfg)) THEN [behavior |-> "allow"]
    ELSE IF cfg.services.webSearch THEN [behavior |-> "allow"]
    ELSE [behavior |-> "deny", message |-> <<"Tool ", toolName, " is not permitted">>]

\* the tool names the upstream runtime may ask about
ToolNames ==
    { Chars("web_search"), Chars("WebSearch"), Chars("calc"), Chars("mail"), Chars("rm") }

\* POST from the credential check to its return
PostResult(env, b, cfg) ==
    IF KeyMissing(env)
    THEN [response |-> JsonResponse(500,
             [error |-> "ANTHROPIC_API_KEY is not configured. Please check environment variables."]),
          called |-> FALSE]
    ELSE IF b.kind = "invalid"
    THEN [response |-> Caught("Unexpected token o in JSON at position 1"), called |-> FALSE]
    ELSE IF b.kind = "null"
    THEN [response |-> Caught("Cannot read properties of null (reading 'messages')"),
          called |-> FALSE]
    ELSE IF ~HasMessagesArray(b) /\ ~HasMessageString(b)
    THEN [response |-> JsonResponse(400,
             [error |-> "Request must include either \"message\" (string) or \"messages\" (array) field"]),
          called |-> FALSE]
    ELSE IF ~HasUserMessage(RequestMessages(b))
    THEN [response |-> JsonResponse(400, [error |-> "No user message found in request"]),
          called |-> FALSE]
    ELSE [response |-> StreamResponse, called |-> TRUE]

\* the request of the runs of Spec and ConsumerSpec, already answered with a stream
DefaultConfig == [services |-> [webSearch |-> FALSE, tools |-> <<>>]]

RInit ==
    /\ apiKey = [key |-> Chars("sk")]
    /\ body = [kind |-> "object", fields |-> [message |-> JString("hi")]]
    /\ config = DefaultConfig
    /\ rpc = "streaming"
    /\ response = StreamResponse
    /\ queryCalls = 1
    /\ options = Options(DefaultConfig)
    /\ prompt = FullPrompt(<<Turn("user", "hi")>>)
    /\ decisions = <<>>

\* a request arrives: any credential, body and configuration
PostInit ==
    /\ apiKey \in ApiKeys
    /\ body \in Bodies
    /\ config \in Configs
    /\ rpc = "received"
    /\ response = EmptyObj
    /\ queryCalls = 0
    /\ options = EmptyObj
    /\ prompt = ""
    /\ decisions = <<>>

\* export async function POST(request)
Post ==
    /\ rpc = "received"
    /\ LET r == PostResult(apiKey, body, config) IN
          /\ response' = r.response
          /\ queryCalls' = IF r.called THEN queryCalls + 1 ELSE queryCalls
          /\ options' = IF r.called THEN Options(config) ELSE options
          /\ prompt' = IF r.called THEN FullPrompt(RequestMessages(body)) ELSE prompt
          /\ rpc' = IF r.called THEN "streaming" ELSE "responded"
    /\ UNCHANGED <<apiKey, body, config, decisions>>
    /\ UNCHANGED <<pvars, cvars, svars, gvars, lvars, xvars>>

\* the upstream runtime asks whether it may use a tool: it calls options.canUseTool
\* when the option is a function; when it is undefined this code decides nothing
ToolRequest ==
    \E toolName \in ToolNames :
        /\ rpc = "streaming"
        /\ Len(decisions) < MaxRequests
        /\ decisions' = Append(decisions,
              [toolName |-> toolName]
                  @@ Opt("decision", "canUseTool" \in DOMAIN options,
                         canUseTool(config, toolName)))
        /\ UNCHANGED <<apiKey, body, config, rpc, response, queryCalls, options, prompt>>
        /\ UNCHANGED <<pvars, cvars, svars, gvars, lvars, xvars>>

PostNext ==
    \/ Post
    \/ ToolRequest

\* ------------------------------------------- configuration accessor
\* Largest value of the server's clock, in units of 15 seconds.
MaxTime == 3

\* const CACHE_DURATION = 30000, in the same units
CACHE_DURATION == 2

\* getDefaultConfig()
getDefaultConfig ==
    [name |-> "AI Agent",
     systemPrompt |-> "You are a helpful AI assistant.",
     model |-> Model,
     rules |-> <<>>,
     tools |-> <<>>,
     webSearch |-> FALSE,
     connectedApps |-> <<>>,
     mcps |-> <<>>,
     uiCustomization |-> [chatLayout |-> "single", filesystemVisible |-> FALSE,
                          todoListVisible |-> FALSE, toolCallsView |-> "compact",
                          theme |-> "light", primaryColor |-> "#0084ff"]]

\* what the platform may answer with status 200: two configurations and JSON null
PlatformConfigs ==
    { [agent |-> [name |-> "A", systemPrompt |-> "Be brief."], deploymentId |-> "dep1"],
      [agent |-> [name |-> "B", systemPrompt |-> "Be kind."], deploymentId |-> "dep1"],
      Null }

\* how the fetch of the configuration can end: the fetch rejects, the status is
\* not 2xx, the body is not JSON, or the body parses to a value
FetchOutcomes ==
    {[kind |-> k] : k \in {"network", "status", "unparseable"}}
      \cup {[kind |-> "ok", config |-> c] : c \in PlatformConfigs}

\* the values of the two environment variables; undefined and '' are both falsy
PlatformEnvs ==
    {[platformUrl |-> u, deploymentId |-> d] :
        u \in {"", "https://platform"}, d \in {"", "dep1"}}

\* a promise of getAgentConfig settled
Resolved(value) == [threw |-> FALSE, value |-> value]

\* the try block: what it returns, or the error it throws, and the cache after it
TryFetch(outcome, cached, last, ms) ==
    IF outcome.kind = "ok"
    THEN [threw |-> FALSE, value |-> outcome.config,
          cachedConfig |-> outcome.config, lastFetchTime |-> ms]
    ELSE [threw |-> TRUE,
          error |-> IF outcome.kind = "status" THEN "Config API returned 500"
                    ELSE IF outcome.kind = "network" THEN "fetch failed"
                    ELSE "Unexpected token",
          cachedConfig |-> cached, lastFetchTime |-> last]

\* a faulty CatchFetch: a failure always gives the default configuration
MutCatchFetch(error, cached) == Resolved(getDefaultConfig)

\* the catch block: the stale cached configuration if there is one, else the default
CatchFetch(error, cached) ==
    IF cached # Null THEN Resolved(cached) ELSE Resolved(getDefaultConfig)

GInit ==
    /\ platformEnv \in PlatformEnvs
    /\ cachedConfig = Null
    /\ lastFetchTime = 0
    /\ serverNow = 0
    /\ returned = EmptyObj
    /\ hFetch = "none"
    /\ hStale = Null

\* the accessor's variables while it is not under study
GIdle ==
    /\ platformEnv = [platformUrl |-> "", deploymentId |-> ""]
    /\ cachedConfig = Null
    /\ lastFetchTime = 0
    /\ serverNow = 0
    /\ returned = EmptyObj
    /\ hFetch = "none"
    /\ hStale = Null

\* export async function getAgentConfig(), from the call to the settled promise
GetAgentConfig ==
    \E outcome \in FetchOutcomes :
        LET ms == serverNow
            t == TryFetch(outcome, cachedConfig, lastFetchTime, ms)
        IN
        /\ hStale' = cachedConfig
        /\ IF cachedConfig # Null /\ (ms - lastFetchTime) < CACHE_DURATION
           THEN /\ returned' = Resolved(cachedConfig)
                /\ hFetch' = "fresh"
                /\ UNCHANGED <<cachedConfig, lastFetchTime>>
           ELSE IF platformEnv.platformUrl = "" \/ platformEnv.deploymentId = ""
           THEN /\ returned' = Resolved(getDefaultConfig)
                /\ hFetch' = "unconfigured"
                /\ UNCHANGED <<cachedConfig, lastFetchTime>>
           ELSE /\ returned' = IF t.threw THEN CatchFetch(t.error, cachedConfig)
                                ELSE Resolved(t.value)
                /\ hFetch' = IF t.threw THEN outcome.kind ELSE "ok"
                /\ cachedConfig' = t.cachedConfig
                /\ lastFetchTime' = t.lastFetchTime
        /\ UNCHANGED <<platformEnv, serverNow>>
        /\ UNCHANGED <<pvars, cvars, rvars, svars, lvars, xvars>>

\* time passes on the server
ServerTick ==
    /\ serverNow < MaxTime
    /\ serverNow' = serverNow + 1
    /\ UNCHANGED <<platformEnv, cachedConfig, lastFetchTime, returned, hFetch, hStale>>
    /\ UNCHANGED <<pvars, cvars, rvars, svars, lvars, xvars>>

ConfigNext ==
    \/ GetAgentConfig
    \/ ServerTick

\* ------------------------------------------- Consumer request lifecycle
\* what the user can type into the textarea
TypedInputs == {<<"h", "i">>, <<" ">>}

\* the frames a response may hold
ClientFrames ==
    { [type |-> "content_delta", delta |-> "a"],
      [type |-> "assistant", content |-> "a", model |-> Model],
      [type |-> "done", content |-> "a", model |-> Model,
          usage |-> [input_tokens |-> 1, output_tokens |-> 2]],
      [type |-> "error", error |-> "upstream failed"] }

\* what the try block of sendMessage can throw before the read loop: fetch
\* rejects, the status is not 2xx, the response has no body
TransportErrors ==
    { [message |-> "Failed to fetch"],
      [message |-> "HTTP error! status: 500"],
      [message |-> "No response body"] }

\* the state values a render hands to the handlers it creates
Rendering(loading, text, sid) == [isLoading |-> loading, input |-> text, sessionId |-> sid]

\* a faulty AfterEvent: the next event still finds the handlers of the old render
MutAfterEvent(old, new) == old

\* React renders the state updates made in the handler of a key or input event
\* before it dispatches the next event: that one finds the handlers of the new render
AfterEvent(old, new) == new

\* a logMessage call that got past its guards and posted to the platform
LogCall(k, sid, role, content, metadata) ==
    [call |-> k, sessionId |-> sid, role |-> role, content |-> content,
     metadata |-> metadata, settled |-> FALSE]

\* error instanceof Error ? error.message : 'Sorry, I encountered an error. ...'
CatchText(error) ==
    IF "message" \in DOMAIN error THEN error.message
    ELSE "Sorry, I encountered an error. Please try again."

\* a faulty CatchError: the error entry replaces the timeline
MutCatchError(prev, error, ms) == <<ErrorMessage(CatchText(error), ms)>>

\* the catch block of sendMessage
CatchError(prev, error, ms) == AppendMessage(prev, ErrorMessage(CatchText(error), ms))

\* m => ({ role: m.role, content: m.content }); JSON.stringify leaves out a content
\* that is undefined
RequestTurn(m) == [role |-> m.role] @@ Opt("content", "content" \in DOMAIN m, m.content)

\* the body of the chat request: [...messages, userMessage].map(...)
RequestBody(msgs, userMessage) ==
    [messages |-> [i \in 1..(Len(msgs) + 1) |->
                      RequestTurn(Append(msgs, userMessage)[i])]]

\* the page has mounted: initSession has run up to its await, or found logging
\* not configured
LInit ==
    /\ input = <<>>
    /\ closure = Rendering(FALSE, <<>>, Null)
    /\ sessionPc \in {"disabled", "creating"}
    /\ calls = <<>>
    /\ logs = <<>>

\* the request variables while no request is under study
LIdle ==
    /\ input = <<>>
    /\ closure = Rendering(FALSE, <<>>, Null)
    /\ sessionPc = "disabled"
    /\ calls = <<>>
    /\ logs = <<>>

\* what the request lifecycle leaves alone
ClientFrame ==
    /\ UNCHANGED <<cpc, contentAccumulator, contentMessageId, responseMetadata, now, data,
                   hDeltas, hBase>>
    /\ UNCHANGED <<wire, pos, buffer, lines, pending, awaiting, hApplied, hRef>>
    /\ UNCHANGED <<pvars, rvars, gvars, xvars>>

\* createSession() has settled: setSessionId(id), id being null when it failed
SessionCreated ==
    \E id \in {Null, [session |-> "s1"]} :
        /\ sessionPc = "creating"
        /\ sessionPc' = "done"
        /\ sessionId' = id
        /\ UNCHANGED <<messages, isLoading, nSteps, input, closure, calls, logs>>
        /\ ClientFrame

\* onChange of the textarea, which is disabled while the render shows loading
OnChange ==
    \E text \in TypedInputs :
        /\ ~closure.isLoading
        /\ text # input
        /\ input' = text
        /\ closure' = AfterEvent(closure, Rendering(isLoading, text, sessionId))
        /\ UNCHANGED <<messages, isLoading, nSteps, sessionId, sessionPc, calls, logs>>
        /\ ClientFrame

\* React renders the updates made outside event handlers (after an await)
Commit ==
    /\ closure # Rendering(isLoading, input, sessionId)
    /\ closure' = Rendering(isLoading, input, sessionId)
    /\ UNCHANGED <<messages, isLoading, nSteps, sessionId, input, sessionPc, calls, logs>>
    /\ ClientFrame

\* Enter in the textarea: sendMessage up to its first await
KeyDownEnter ==
    LET text == closure.input
        sid == closure.sessionId
        k == Len(calls) + 1
        logged == sid # Null /\ text # <<>>
        userMessage == [id |-> MkId("user", now), role |-> "user", content |-> text,
                        eventType |-> "user_message", timestamp |-> now]
    IN
    /\ ~(Trim(text) = <<>> \/ closure.isLoading)
    /\ nSteps < MaxSteps
    /\ nSteps' = nSteps + 1
    /\ messages' = AppendMessage(messages, userMessage)
    /\ input' = <<>>
    /\ isLoading' = TRUE
    /\ logs' = IF logged THEN Append(logs, LogCall(k, sid, "user", text, EmptyObj))
               ELSE logs
    /\ calls' = Append(calls,
                  [pc |-> IF logged THEN "logUser" ELSE "fetch",
                   sessionId |-> sid, userMessageContent |-> text,
                   contentAccumulator |-> "", contentMessageId |-> Null,
                   responseMetadata |-> EmptyObj,
                   request |-> RequestBody(messages, userMessage),
                   \* history
                   base |-> Len(messages), outcome |-> "", terminal |-> FALSE,
                   done |-> FALSE, errored |-> FALSE, text |-> "",
                   kinds |-> [i \in 1..Len(messages) |-> messages[i].eventType]])
    /\ closure' = AfterEvent(closure, Rendering(TRUE, <<>>, sessionId))
    /\ UNCHANGED <<sessionId, sessionPc>>
    /\ ClientFrame

\* the POST of a logMessage call settles, with any status or an error: logMessage
\* returns and the sendMessage that awaits it goes on
LogSettles ==
    \E i \in 1..Len(logs) :
        LET k == logs[i].call IN
        /\ ~logs[i].settled
        /\ logs' = [logs EXCEPT ![i].settled = TRUE]
        /\ calls' = IF calls[k].pc = "logUser"
                    THEN [calls EXCEPT ![k].pc = "fetch"]
                    ELSE [calls EXCEPT ![k].pc = "reading",
                                       ![k].contentAccumulator = "",
                                       ![k].contentMessageId = Null]
        /\ UNCHANGED <<messages, isLoading, nSteps, sessionId, input, closure, sessionPc>>
        /\ ClientFrame

\* await fetch('/api/chat') gives a response with a body to read
FetchResponds ==
    \E k \in 1..Len(calls) :
        /\ calls[k].pc = "fetch"
        /\ calls' = [calls EXCEPT ![k].pc = "reading", ![k].outcome = "ok"]
        /\ UNCHANGED <<messages, isLoading, nSteps, sessionId, input, closure, sessionPc,
                       logs>>
        /\ ClientFrame

\* the try block throws before the read loop: the catch block, then finally
FetchFails ==
    \E k \in 1..Len(calls) : \E error \in TransportErrors :
        /\ calls[k].pc = "fetch"
        /\ messages' = CatchError(messages, error, now)
        /\ isLoading' = FALSE
        /\ calls' = [calls EXCEPT ![k].pc = "finished", ![k].outcome = "transport"]
        /\ UNCHANGED <<nSteps, sessionId, input, closure, sessionPc, logs>>
        /\ ClientFrame

\* one data: line of the response was parsed and dispatched
ReadFrame ==
    \E k \in 1..Len(calls) : \E d \in ClientFrames :
        LET c == calls[k]
            h == HandleFrame(c.contentAccumulator, c.contentMessageId,
                             c.responseMetadata, d, now)
            logged == h.terminal /\ c.sessionId # Null /\ c.contentAccumulator # ""
            c1 == [c EXCEPT !.responseMetadata = h.meta,
                            !.terminal = @ \/ h.terminal,
                            !.done = @ \/ d.type = "done",
                            !.errored = @ \/ d.type = "error",
                            !.text = IF d.type = "content_delta" THEN @ \o d.delta ELSE @]
        IN
        /\ c.pc = "reading"
        /\ nSteps < MaxSteps
        /\ nSteps' = nSteps + 1
        /\ messages' = RunUpdaters(messages, h.updaters, h.id, h.acc)
        /\ logs' = IF logged
                   THEN Append(logs, LogCall(k, c.sessionId, "assistant",
                                             c.contentAccumulator, h.meta))
                   ELSE logs
        /\ calls' = [calls EXCEPT ![k] =
                        IF logged THEN [c1 EXCEPT !.pc = "logAssistant"]
                        ELSE IF h.terminal
                        THEN [c1 EXCEPT !.contentAccumulator = "", !.contentMessageId = Null]
                        ELSE [c1 EXCEPT !.contentAccumulator = h.acc,
                                        !.contentMessageId = h.id]]
        /\ UNCHANGED <<isLoading, sessionId, input, closure, sessionPc>>
        /\ ClientFrame

\* reader.read() rejects in the middle of the body: the catch block, then finally
ReadThrows ==
    \E k \in 1..Len(calls) :
        /\ calls[k].pc = "reading"
        /\ messages' = CatchError(messages, [message |-> "network error"], now)
        /\ isLoading' = FALSE
        /\ calls' = [calls EXCEPT ![k].pc = "finished", ![k].outcome = "aborted"]
        /\ UNCHANGED <<nSteps, sessionId, input, closure, sessionPc, logs>>
        /\ ClientFrame

\* a faulty ReadEnds: sendMessage returns without turning the indicator off
MutReadEnds ==
    \E k \in 1..Len(calls) :
        /\ calls[k].pc = "reading"
        /\ calls' = [calls EXCEPT ![k].pc = "finished"]
        /\ UNCHANGED <<messages, isLoading, nSteps, sessionId, input, closure, sessionPc,
                       logs>>
        /\ ClientFrame

\* reader.read() reports done: the loop ends and the finally block runs
ReadEnds ==
    \E k \in 1..Len(calls) :
        /\ calls[k].pc = "reading"
        /\ isLoading' = FALSE
        /\ calls' = [calls EXCEPT ![k].pc = "finished"]
        /\ UNCHANGED <<messages, nSteps, sessionId, input, closure, sessionPc, logs>>
        /\ ClientFrame

ClientNext ==
    \/ SessionCreated
    \/ OnChange
    \/ Commit
    \/ KeyDownEnter
    \/ LogSettles
    \/ FetchResponds
    \/ FetchFails
    \/ ReadFrame
    \/ ReadThrows
    \/ ReadEnds

\* --------------------------------------------- concurrent responses
\* Upstream messages one of two concurrent requests consumes.
MaxTurns == 2

\* the requests that stream at the same time in one server process
Requests == {1, 2}

\* a faulty Scope: the accumulators are declared at module level, one set for all
MutScope(r) == 1

\* the accumulators are declared inside start(controller): every request's
\* invocation has bindings of its own
Scope(r) == r

\* let assistantMessage = ''; let thinking = ''; const toolCalls = []; ...
Local0 ==
    [assistantMessage |-> "", thinking |-> "", toolCalls |-> <<>>,
     toolCallsMap |-> EmptyObj, usageMetadata |-> EmptyObj]

\* the body of the for-await loop as a function of the accumulators l, the frames
\* fr sent so far and the message: event.type === 'content_block_start'
HandleBlock(l, fr, block) ==
    [local |-> [l EXCEPT !.thinking = IF Str(block, "type") = "thinking" THEN "" ELSE @],
     frames |-> fr, threw |-> FALSE]

\* event.type === 'content_block_delta'
HandleDelta(l, fr, delta) ==
    LET isThinking == Str(delta, "type") = "thinking_delta" /\ Has(delta, "thinking")
        th1 == IF isThinking THEN AppendThinking(l.thinking, delta) ELSE l.thinking
        fr1 == IF isThinking THEN sendChunk(fr, ThinkingChunk(th1)) ELSE fr
        isText == Str(delta, "type") = "text_delta" /\ Has(delta, "text")
        am1 == IF isText THEN l.assistantMessage \o delta.text ELSE l.assistantMessage
        fr2 == IF isText THEN sendChunk(fr1, ContentDeltaChunk(am1, delta)) ELSE fr1
        isTool == IsToolDelta(delta)
        tt == IF isTool THEN ToolDelta(l.toolCalls, l.toolCallsMap, delta)
              ELSE [toolCalls |-> l.toolCalls, toolCallsMap |-> l.toolCallsMap]
        fr3 == IF isTool THEN sendChunk(fr2, ToolCallChunk(tt.toolCalls)) ELSE fr2
    IN  [local |-> [l EXCEPT !.thinking = th1, !.assistantMessage = am1,
                             !.toolCalls = tt.toolCalls,
                             !.toolCallsMap = tt.toolCallsMap],
         frames |-> fr3, threw |-> FALSE]

\* event.type === 'message_delta'
HandleUsage(l, fr, event) ==
    LET usage == IF "usage" \in DOMAIN event.delta THEN event.delta.usage
                 ELSE IF "usage" \in DOMAIN event THEN event.usage
                 ELSE EmptyObj
    IN  [local |-> [l EXCEPT !.usageMetadata = UpdateUsage(@, usage)],
         frames |-> fr, threw |-> FALSE]

\* message.type === 'assistant'
HandleAssistant(l, fr, m) ==
    LET modelInfo == IF Has(m, "model") THEN m.model ELSE Model
        usage1 == IF "usage" \in DOMAIN m THEN UpdateUsage(l.usageMetadata, m.usage)
                  ELSE l.usageMetadata
        isArray == "content" \in DOMAIN m.message
        content == IF isArray THEN m.message.content ELSE <<>>
        am1 == Join(TextParts(content))
        fp == FinalParts(content, l.toolCalls, l.toolCallsMap, FALSE)
        fr1 == IF fp.hasNewToolCalls /\ Len(fp.toolCalls) > 0
               THEN sendChunk(fr, ToolCallChunk(fp.toolCalls)) ELSE fr
        fr2 == IF am1 # ""
               THEN sendChunk(fr1, Summary("assistant", am1, l.thinking, fp.toolCalls,
                                           modelInfo, usage1))
               ELSE fr1
    IN  [local |-> [l EXCEPT !.usageMetadata = usage1,
                             !.assistantMessage = IF isArray THEN am1 ELSE @,
                             !.toolCalls = fp.toolCalls,
                             !.toolCallsMap = fp.toolCallsMap],
         frames |-> IF isArray THEN fr2 ELSE fr, threw |-> FALSE]

\* message.type === 'result'
HandleResult(l, fr, resultMsg) ==
    LET known == Has(resultMsg, "tool_use_id")
                    /\ resultMsg.tool_use_id \in DOMAIN l.toolCallsMap
        tcs1 == IF known
                THEN [l.toolCalls EXCEPT ![l.toolCallsMap[resultMsg.tool_use_id]] =
                                            SetResult(@, resultMsg)]
                ELSE l.toolCalls
        throws == known /\ "content" \notin DOMAIN resultMsg
    IN  [local |-> [l EXCEPT !.toolCalls = tcs1],
         frames |-> IF known /\ ~throws
                    THEN sendChunk(fr, ToolResultChunk(resultMsg, tcs1)) ELSE fr,
         threw |-> throws]

\* one pass through the body of the for-await loop
Handle(l, fr, u) ==
    CASE u.kind = "block"     -> HandleBlock(l, fr, u.block)
      [] u.kind = "delta"     -> HandleDelta(l, fr, u.delta)
      [] u.kind = "usage"     -> HandleUsage(l, fr, u.event)
      [] u.kind = "assistant" -> HandleAssistant(l, fr, u.message)
      [] u.kind = "result"    -> HandleResult(l, fr, u.message)
      [] OTHER                -> [local |-> l, frames |-> fr, threw |-> FALSE]

\* every upstream message of the Producer's inputs, tagged with its kind
AllUpstream ==
    {[kind |-> "block", block |-> b] : b \in Blocks}
      \cup {[kind |-> "delta", delta |-> d] : d \in Deltas}
      \cup {[kind |-> "usage", event |-> e] : e \in MessageDeltas}
      \cup {[kind |-> "assistant", message |-> m] : m \in AssistantMessages}
      \cup {[kind |-> "result", message |-> m] : m \in ResultMessages}
      \cup {[kind |-> "system"]}

\* the upstream messages of the concurrent requests
Upstream ==
    { [kind |-> "delta", delta |-> [type |-> "text_delta", text |-> "a"]],
      [kind |-> "delta", delta |-> [type |-> "thinking_delta", thinking |-> "Let"]],
      [kind |-> "delta",
          delta |-> [type |-> "tool_use_delta", tool_use_id |-> "t1", name |-> "search"]],
      [kind |-> "usage",
          event |-> [type |-> "message_delta", delta |-> [usage |-> [output_tokens |-> 2]]]],
      [kind |-> "assistant",
          message |-> [type |-> "assistant",
                       message |-> [content |-> <<[type |-> "tool_use", id |-> "t2",
                                                   name |-> "fetch"],
                                                  [type |-> "text", text |-> "a"]>>]]],
      [kind |-> "result",
          message |-> [type |-> "result", tool_use_id |-> "t1", content |-> "r1",
                       subtype |-> "success"]] }

\* a request whose start() has just declared its accumulators
Started == [pc |-> "streaming", frames |-> <<>>, closeCount |-> 0, events |-> <<>>,
            exit |-> ""]

\* two requests have been accepted and their start() functions have run up to the loop
XInit ==
    /\ store = [k \in Requests |-> Local0]
    /\ streams = [r \in Requests |-> Started]

\* the same variables while only one response is under study
XIdle ==
    /\ store = [k \in Requests |-> Local0]
    /\ streams = [r \in Requests |-> [Started EXCEPT !.pc = "closed"]]

\* the iterator of request r yields a message and the loop body handles it; a
\* throw inside the body goes to the catch block and the finally block
Consume(r) ==
    \E u \in Upstream :
        LET h == Handle(store[Scope(r)], streams[r].frames, u) IN
        /\ streams[r].pc = "streaming"
        /\ Len(streams[r].events) < MaxTurns
        /\ store' = [store EXCEPT ![Scope(r)] = h.local]
        /\ streams' = [streams EXCEPT ![r] =
              [pc |-> IF h.threw THEN "closed" ELSE "streaming",
               frames |-> IF h.threw THEN sendChunk(h.frames, ErrorChunk(PreviewTypeError))
                          ELSE h.frames,
               closeCount |-> IF h.threw THEN @.closeCount + 1 ELSE @.closeCount,
               events |-> Append(@.events, u),
               exit |-> IF h.threw THEN "threw" ELSE ""]]
        /\ UNCHANGED <<pvars, cvars, rvars, svars, gvars, lvars>>

\* the iterator of request r is exhausted: the done frame, then the finally block
Exhausted(r) ==
    LET l == store[Scope(r)] IN
    /\ streams[r].pc = "streaming"
    /\ streams' = [streams EXCEPT ![r] =
          [@ EXCEPT !.pc = "closed",
                    !.frames = sendChunk(@, Summary("done", l.assistantMessage, l.thinking,
                                                    l.toolCalls, Model, l.usageMetadata)),
                    !.closeCount = @ + 1,
                    !.exit = "exhausted"]]
    /\ UNCHANGED store
    /\ UNCHANGED <<pvars, cvars, rvars, svars, gvars, lvars>>

\* the iterator of request r throws: the catch block, then the finally block
Raises(r) ==
    /\ streams[r].pc = "streaming"
    /\ streams' = [streams EXCEPT ![r] =
          [@ EXCEPT !.pc = "closed",
                    !.frames = sendChunk(@, ErrorChunk([message |-> "upstream failed"])),
                    !.closeCount = @ + 1,
                    !.exit = "raised"]]
    /\ UNCHANGED store
    /\ UNCHANGED <<pvars, cvars, rvars, svars, gvars, lvars>>

ConsumeAny == \E r \in Requests : Consume(r)
ExhaustedAny == \E r \in Requests : Exhausted(r)
RaisesAny == \E r \in Requests : Raises(r)

ConcurrentNext ==
    \/ ConsumeAny
    \/ ExhaustedAny
    \/ RaisesAny

\* ------------------------------------------------------- specifications
Init == PInit /\ CInit /\ RInit /\ SInit /\ GIdle /\ LIdle /\ XIdle

\* one streaming response of the Producer
Spec == Init /\ [][Next]_vars

\* one streaming response whose client may go away at any point
DisconnectSpec == Init /\ [][DisconnectNext]_vars

\* two requests have been accepted and stream at the same time
ConcurrentInit == PInit /\ CInit /\ RInit /\ SInit /\ GIdle /\ LIdle /\ XInit

\* two streaming responses of one server process, interleaved message by message
ConcurrentSpec == ConcurrentInit /\ [][ConcurrentNext]_vars

\* the Consumer applying frames to its timeline
ConsumerSpec == Init /\ [][ConsumerNext]_vars

\* the Consumer in the middle of a response, after the first turn
SecondTurnInit == PInit /\ TurnInit /\ RInit /\ SInit /\ GIdle /\ LIdle /\ XIdle

\* the rest of a response, and what follows it, from the end of its first turn
SecondTurnSpec == SecondTurnInit /\ [][ConsumerNext]_vars

\* a request arrives at the chat endpoint, nothing streamed yet
RequestInit == PInit /\ CInit /\ PostInit /\ SInit /\ GIdle /\ LIdle /\ XIdle

\* a response body is about to be read
BodyInit == PInit /\ RInit /\ ReaderInit /\ GIdle /\ LIdle /\ XIdle

\* a server process has started, no configuration fetched yet
AccessorInit == PInit /\ CInit /\ RInit /\ SInit /\ GInit /\ LIdle /\ XIdle

\* calls of the configuration accessor over time
ConfigSpec == AccessorInit /\ [][ConfigNext]_vars

\* the page has mounted, nothing sent yet
PageInit == PInit /\ CInit /\ RInit /\ SInit /\ GIdle /\ LInit /\ XIdle

\* the requests of one page, from the key press to the end of the response
ClientSpec == PageInit /\ [][ClientNext]_vars

\* what a request whose stream closes or fails can rely on: the fetch settles,
\* the body comes to its end or breaks, and React renders.  The platform's log
\* endpoint owes nothing: a logMessage call may stay outstanding.
ClientFairness ==
    /\ WF_vars(FetchResponds \/ FetchFails)
    /\ WF_vars(ReadEnds \/ ReadThrows)
    /\ WF_vars(Commit)

\* the requests of one page under these assumptions
ClientLiveSpec == PageInit /\ [][ClientNext]_vars /\ ClientFairness

\* the Consumer reading one response body, chunk by chunk
ReaderSpec == BodyInit /\ [][ReaderNext]_vars

\* the chat endpoint answering one request
PostSpec == RequestInit /\ [][PostNext]_vars

\* ------------------------------------------------------------ properties
\* positions of the timeline entries of kind `eventType` that carry tool id `id`
ToolEntries(eventType, id) ==
    {i \in 1..Len(messages) :
        /\ messages[i].eventType = eventType
        /\ "toolCall" \in DOMAIN messages[i]
        /\ messages[i].toolCall.id = id}

\* tool id `id` is represented by some entry of the timeline
Represented(id) ==
    \E i \in 1..Len(messages) :
        "toolCall" \in DOMAIN messages[i] /\ messages[i].toolCall.id = id

\* positions of the content entries appended since the last terminal frame
OpenContentEntries ==
    {i \in (hBase + 1)..Len(messages) : messages[i].eventType = "content_delta"}

\* C1: Consumer, content_delta.  Once deltas d1..dn were applied since the last
\* terminal frame (whatever other frames came in between), exactly one content
\* entry was appended since then and its text is d1+...+dn: the first delta
\* creates it, every later delta rewrites it in place.
C1_OpenContentEntry ==
    hDeltas # <<>> =>
        \E i \in OpenContentEntries :
            /\ OpenContentEntries = {i}
            /\ messages[i].content = Join(hDeltas)

\* C1 witness: a second delta has just been applied to an entry that is no longer
\* the last one of the timeline (another frame's entry was appended after it).
C1_Witness ==
    /\ Len(hDeltas) >= 2
    /\ Str(data, "type") = "content_delta"
    /\ \E i \in OpenContentEntries : i < Len(messages) /\ messages[i].content = "ab"

\* C2: Consumer, tool_call dedup.  Each tool id has at most one tool-call entry in
\* the timeline, whatever frames were applied.
C2_OneToolCallEntryPerId ==
    \A id \in ToolIds : Cardinality(ToolEntries("tool_call", id)) <= 1

\* C3: Consumer, tool_call completeness.  After a tool_call frame is applied, every
\* id of the table it carries is represented in the timeline.
C3_FrameTableRepresented ==
    (Str(data, "type") = "tool_call" /\ "toolCalls" \in DOMAIN data) =>
        \A k \in 1..Len(data.toolCalls) : Represented(data.toolCalls[k].id)

\* C4: Consumer, tool_result idempotence.  Replaying a tool_result frame (same id,
\* same payload) leaves one result entry for it in the timeline.
C4_OneResultEntryPerFrame ==
    \A id \in ToolIds : \A r \in {"r1", "r2"} :
        Cardinality({i \in ToolEntries("tool_result", id) :
                        Str(messages[i].toolCall, "result") = r}) <= 1

\* the status the Producer derived from the upstream subtype for tool id `id`,
\* as carried by the table of frame d
FrameStatus(d, id) ==
    LET k == CHOOSE k \in 1..Len(d.toolCalls) : d.toolCalls[k].id = id
    IN  d.toolCalls[k].status

\* C5: Tool result status.  The result entry created from a tool_result frame has
\* the status derived from the upstream subtype (success for success, error for
\* anything else), which the frame carries in the row of that id.
C5_ResultStatusFromSubtype ==
    Str(data, "type") = "tool_result" =>
        messages[Len(messages)].toolCall.status = FrameStatus(data, data.toolUseId)

\* C7: Consumer, terminal reconciliation.  After a terminal frame is applied, every
\* tool id of its tool list is represented in the timeline, also one that no
\* tool_call frame announced.
C7_TerminalReconciles ==
    (Str(data, "type") \in {"done", "assistant"} /\ "toolCalls" \in DOMAIN data) =>
        \A k \in 1..Len(data.toolCalls) : Represented(data.toolCalls[k].id)

\* the key-wise last-write-wins merge of a sequence of input fragments
RECURSIVE MergeAll(_)
MergeAll(frags) ==
    IF frags = <<>> THEN EmptyObj
    ELSE Spread(MergeAll(SubSeq(frags, 1, Len(frags) - 1)), frags[Len(frags)])

\* C6: Producer, tool input merge.  The stored input of every row is the key-wise
\* last-write-wins merge of the inputs of all fragments bearing its id, streaming
\* deltas and restatements in the final assistant message alike.
C6_InputIsMergeOfFragments ==
    \A i \in 1..Len(toolCalls) :
        toolCalls[i].input = MergeAll(hFrags[toolCalls[i].id])

IsThinkingFrame(f) == f.type = "thinking"

\* the thinking frames emitted since the last thinking block start
ThinkingFramesOfBlock ==
    SelectSeq(SubSeq(frames, hThinkBase + 1, Len(frames)), IsThinkingFrame)

\* C8: Producer, thinking frames carry the full value.  For the thinking fragments
\* f1..fk received since the most recent thinking block start, k frames were
\* emitted since then and the j-th carries f1+...+fj; a new block starts over.
C8_ThinkingFullValue ==
    /\ Len(ThinkingFramesOfBlock) = Len(hThink)
    /\ \A j \in 1..Len(hThink) :
          ThinkingFramesOfBlock[j].content = Join(SubSeq(hThink, 1, j))

\* C8 witness: the second fragment of a block was received and its frame carries
\* both fragments.
C8_Witness ==
    /\ hThink = <<"Let", " me think">>
    /\ frames # <<>>
    /\ frames[Len(frames)] = [type |-> "thinking", content |-> "Let me think"]

IsContentDeltaFrame(f) == f.type = "content_delta"

\* C9: Producer, content_delta frames carry only the delta.  The content_delta
\* frames emitted are, one for one and in order, the non-empty text fragments
\* received.
C9_ContentDeltaIsFragment ==
    LET cd == SelectSeq(frames, IsContentDeltaFrame)
    IN  /\ Len(cd) = Len(hText)
        /\ \A j \in 1..Len(hText) : cd[j] = [type |-> "content_delta", delta |-> hText[j]]

\* C9 witness: two fragments were received and the accumulated text differs from
\* the delta of the last frame.
C9_Witness ==
    /\ hText = <<"a", "b">>
    /\ assistantMessage = "ab"
    /\ frames[Len(frames)] = [type |-> "content_delta", delta |-> "b"]

\* C10: Producer, normal completion.  A done frame is emitted only when the
\* iterator is exhausted; the run then ends with exactly one done frame, which is
\* the last frame, carries the final text and the tool table (absent when the
\* table is empty), and the stream was closed once.
C10_DoneIsLast ==
    /\ \A i \in 1..Len(frames) :
          frames[i].type = "done" => hExit = "exhausted" /\ i = Len(frames)
    /\ hExit = "exhausted" =>
          /\ pc = "closed"
          /\ frames # <<>>
          /\ frames[Len(frames)].type = "done"
          /\ frames[Len(frames)].content = assistantMessage
          /\ IF Len(toolCalls) > 0
             THEN /\ "toolCalls" \in DOMAIN frames[Len(frames)]
                  /\ frames[Len(frames)].toolCalls = toolCalls
             ELSE "toolCalls" \notin DOMAIN frames[Len(frames)]
          /\ closeCount = 1

\* C10 witness: a run that streamed text and a tool call has ended normally.
C10_Witness ==
    /\ hExit = "exhausted"
    /\ assistantMessage # ""
    /\ Len(toolCalls) > 0
    /\ Len(frames) >= 3


\* C11 as stated: Producer, terminal frames are last.  No frame of any type follows
\* an assistant frame or a done frame in the same stream.
C11_TerminalIsLast ==
    \A i \in 1..Len(frames) :
        frames[i].type \in {"assistant", "done"} => i = Len(frames)

\* C11 as amended: a done frame is terminal, no frame follows it and start() has
\* returned; an assistant frame is emitted inside the loop and is not terminal:
\* when the iterator is exhausted the done frame comes after it.
C11_DoneIsTerminal ==
    /\ \A i \in 1..Len(frames) :
          frames[i].type = "done" => i = Len(frames) /\ pc = "closed"
    /\ hExit = "exhausted" =>
          \A i \in 1..Len(frames) : frames[i].type = "assistant" => i < Len(frames)

\* C11 witness: a run ended normally whose assistant frame was followed by another
\* frame before the done frame.
C11_Witness ==
    /\ hExit = "exhausted"
    /\ \E i \in 1..Len(frames) : frames[i].type = "assistant" /\ i + 1 < Len(frames)

\* C12: Producer, upstream failure.  When the iterator raises, exactly one error
\* frame was emitted, it is the last frame, there is no done frame, and the stream
\* is closed.
C12_UpstreamFailure ==
    hExit = "raised" =>
        /\ pc = "closed"
        /\ closeCount = 1
        /\ frames # <<>>
        /\ {i \in 1..Len(frames) : frames[i].type = "error"} = {Len(frames)}
        /\ \A i \in 1..Len(frames) : frames[i].type # "done"

\* C12 witness: the iterator raised after frames were streamed.
C12_Witness ==
    /\ hExit = "raised"
    /\ Len(frames) >= 3
    /\ frames[Len(frames)].error = "upstream failed"

\* C13: Producer, stream close.  The stream is closed at most once, exactly once
\* when start() has returned, whichever way the loop was left, and no frame is
\* enqueued once it is closed.
C13_ClosedOnce ==
    /\ [](/\ closeCount <= 1
          /\ (pc = "closed") <=> (closeCount = 1)
          /\ (pc = "closed") <=> (hExit \in {"exhausted", "raised", "threw"}))
    /\ [][closeCount >= 1 => frames' = frames]_vars

\* C13 witness: start() has returned through the catch block after a step threw.
C13_Witness ==
    /\ pc = "closed"
    /\ hExit = "threw"
    /\ closeCount = 1

\* C14: Producer, tool ids are announced before terminal frames.  Every id in the
\* tool list of an assistant or done frame is in the table of an earlier tool_call
\* frame.
C14_IdsAnnounced ==
    \A j \in 1..Len(frames) :
        (frames[j].type \in {"assistant", "done"} /\ "toolCalls" \in DOMAIN frames[j]) =>
            \A k \in 1..Len(frames[j].toolCalls) :
                \E i \in 1..(j - 1) :
                    /\ frames[i].type = "tool_call"
                    /\ \E r \in 1..Len(frames[i].toolCalls) :
                          frames[i].toolCalls[r].id = frames[j].toolCalls[k].id

\* C14 witness: the first upstream message was the final assistant message, and
\* the id it brought was announced right before the assistant frame.
C14_Witness ==
    /\ nEvents = 1
    /\ Len(frames) = 2
    /\ frames[1].type = "tool_call"
    /\ frames[2].type = "assistant"
    /\ "toolCalls" \in DOMAIN frames[2]

\* C17: Producer, no tools.  As long as the upstream emitted no tool fragment, no
\* tool_use part and no tool result, no tool_call and no tool_result frame was
\* emitted, and the done frame has no toolCalls field.
C17_NoTools ==
    ~hTools =>
        /\ \A i \in 1..Len(frames) : frames[i].type \notin {"tool_call", "tool_result"}
        /\ hExit = "exhausted" => "toolCalls" \notin DOMAIN frames[Len(frames)]

\* C17 witness: a run without tools streamed text and ended normally.
C17_Witness ==
    /\ ~hTools
    /\ hExit = "exhausted"
    /\ Len(hText) >= 2
    /\ frames[Len(frames)].type = "done"


\* C15: Chat endpoint, missing credential.  When the credential is unset, empty or
\* blank, POST returns a JSON response with status 500 and an error field and
\* query() was not called, whatever the body is.
C15_MissingCredential ==
    (rpc # "received" /\ ("key" \notin DOMAIN apiKey \/ Trim(apiKey.key) = <<>>)) =>
        /\ rpc = "responded"
        /\ response.kind = "json"
        /\ response.status = 500
        /\ "error" \in DOMAIN response.body
        /\ queryCalls = 0

\* C15 witness: a blank credential with a well-formed body was answered.
C15_Witness ==
    /\ rpc = "responded"
    /\ apiKey = [key |-> <<" ", " ">>]
    /\ HasMessageString(body)
    /\ response.status = 500

\* C16: Chat endpoint, malformed body.  With a valid credential, a body with neither
\* a message string nor a messages array is answered with a JSON response of status
\* 400, and query() was not called and no frame was sent.
C16_MalformedBody ==
    ( /\ rpc # "received"
      /\ ~KeyMissing(apiKey)
      /\ ~HasMessagesArray(body)
      /\ ~HasMessageString(body) ) =>
        /\ response.kind = "json"
        /\ response.status = 400
        /\ queryCalls = 0

\* C18: Producer, tool permission decision.  Every tool request is decided: allowed
\* when web search is enabled; when it is disabled, allowed for the names of the
\* enabled custom tools and denied with a reason for every other name.
C18_PermissionDecision ==
    \A i \in 1..Len(decisions) :
        LET d == decisions[i] IN
        /\ "decision" \in DOMAIN d
        /\ IF config.services.webSearch \/ d.toolName \in Range(AllowedTools(config))
           THEN d.decision.behavior = "allow"
           ELSE d.decision.behavior = "deny" /\ "message" \in DOMAIN d.decision


\* the complete lines of a body: the pieces before its last newline
CompleteLines(w) == LET pieces == Split(w) IN SubSeq(pieces, 1, Len(pieces) - 1)

\* a line the loop does not fail on: not a data: line, or one whose JSON parses
WellFormed(line) == ~IsDataLine(line) \/ Parses(Payload(line))

RECURSIVE FramesOfLines(_)
\* the frames of the data: lines among ls, in order
FramesOfLines(ls) ==
    IF ls = <<>> THEN <<>>
    ELSE (IF IsDataLine(Head(ls)) /\ Parses(Payload(Head(ls)))
          THEN <<Parse(Payload(Head(ls)))>> ELSE <<>>)
            \o FramesOfLines(Tail(ls))

\* the body was read to its end and everything queued was rendered
Settled == cpc = "idle" /\ pending = <<>>

\* Whatever the cuts, the frames dispatched are those of the complete data: lines
\* of the body, each once and in order.
FramingIndependent ==
    cpc = "idle" => hApplied = FramesOfLines(CompleteLines(wire))

\* C19: Consumer, chunk-boundary independence and frame order.  However the body
\* was cut into chunks, once it is read and rendered the frames dispatched are
\* those of its complete data: lines, each once and in order, and the timeline is
\* the one these frames give when each arrives in a chunk of its own.
C19_ChunkIndependent ==
    Settled =>
        /\ hApplied = FramesOfLines(CompleteLines(wire))
        /\ messages = hRef.messages

\* C20: Consumer, malformed line.  The turn of the loop on a data: line whose JSON
\* does not parse changes neither the timeline, the queued updaters, the content
\* accumulator nor the open entry and goes on to the next line; and the frames
\* dispatched from a body are those of the body without its malformed lines.
C20_MalformedLineSkipped ==
    /\ [][ ( /\ cpc = "reading"
             /\ lines # <<>>
             /\ ~awaiting
             /\ ~WellFormed(Head(lines)) )
           => ( /\ lines' = Tail(lines)
                /\ UNCHANGED <<messages, pending, contentAccumulator, contentMessageId,
                               responseMetadata, cpc, isLoading, hApplied>> ) ]_vars
    /\ [](cpc = "idle" =>
             hApplied = FramesOfLines(SelectSeq(CompleteLines(wire), WellFormed)))

\* C20 witness: a body with a malformed line between two deltas was read to its
\* end, and the content entry holds both deltas.
C20_Witness ==
    /\ Settled
    /\ wire = Encode("A") \o DataPrefix \o <<"{", "A", NL, NL>> \o Encode("B")
    /\ Len(messages) = 2
    /\ messages[2].content = "ab"


\* C21: Consumer, error frame.  Applying an error frame appends one entry to the
\* timeline, of kind error and showing the frame's message, and leaves every
\* earlier entry as it was, however many frames came before; when the request
\* has ended the loading indicator is off.
C21_ErrorFrameAppendsOne ==
    /\ [][(cpc = "reading" /\ nSteps' # nSteps /\ Str(data', "type") = "error") =>
            /\ Len(messages') = Len(messages) + 1
            /\ SubSeq(messages', 1, Len(messages)) = messages
            /\ messages'[Len(messages')].eventType = "error"
            /\ Has(data', "error") =>
                  messages'[Len(messages')].content = data'.error]_vars
    /\ [](cpc = "idle" => ~isLoading)

\* C21 witness: a request has ended whose last frame, after two others, was an
\* error frame; its message is the last entry and loading is off.
C21_Witness ==
    /\ cpc = "idle"
    /\ ~isLoading
    /\ Str(data, "type") = "error"
    /\ Len(messages) >= 4
    /\ messages[Len(messages)].eventType = "error"
    /\ messages[Len(messages)].content = "upstream failed"
    /\ \A i \in 1..(Len(messages) - 1) : messages[i].eventType # "error"


\* C25: Consumer, rendering order.  The timeline is append-only: a step never
\* removes an entry and never moves one, it can only rewrite an entry in place
\* and add entries at the end; and what is displayed after the step is what was
\* displayed before it, in the same order, followed by the elements of the new
\* entries, whatever the timestamps are.
C25_AppendOnly ==
    [][/\ Len(messages') >= Len(messages)
       /\ \A i \in 1..Len(messages) :
             /\ messages'[i].id = messages[i].id
             /\ messages'[i].eventType = messages[i].eventType
             /\ messages'[i].timestamp = messages[i].timestamp
       /\ SubSeq(Rendered(messages'), 1, Len(messages)) = Rendered(messages)]_vars

\* C25 witness: a content entry that is not the last one was rewritten in place,
\* and it carries the same timestamp as an entry displayed after it.
C25_Witness ==
    \E i \in 1..Len(messages) : \E j \in (i + 1)..Len(messages) :
        /\ messages[i].eventType = "content_delta"
        /\ messages[i].content = "ab"
        /\ messages[j].eventType \in {"thinking", "tool_call", "tool_result", "error"}
        /\ messages[j].timestamp = messages[i].timestamp
        /\ Rendered(messages)[j].key = messages[j].id


\* C29 as stated: Producer, a tool_call frame after every merge.  Once the
\* fragments of an upstream message, streaming delta or final assistant message,
\* have created or merged rows, the next frame emitted is a tool_call frame
\* carrying the whole table as it then is.
C29_ToolCallAfterEveryMerge ==
    hMerge.ids # <<>> =>
        /\ Len(frames) > hMerge.from
        /\ frames[hMerge.from + 1] = [type |-> "tool_call", toolCalls |-> hMerge.table]

\* C29 as amended: the tool_call frame follows every streaming fragment, and a
\* final assistant message that brought at least one new id; a final message
\* that only restates known ids updates their rows without a tool_call frame:
\* what follows it is its assistant frame, if it has text, or nothing.
C29_ToolCallAfterNewOrDelta ==
    hMerge.ids # <<>> =>
        IF ~hMerge.final \/ hMerge.created
        THEN /\ Len(frames) > hMerge.from
             /\ frames[hMerge.from + 1] = [type |-> "tool_call", toolCalls |-> hMerge.table]
        ELSE Len(frames) > hMerge.from => frames[hMerge.from + 1].type # "tool_call"

\* C29 witness: a final message restated the known id t1 with another input; the
\* row was rewritten and the next frame is the assistant frame.
C29_Witness ==
    /\ hMerge.final
    /\ ~hMerge.created
    /\ hMerge.ids = <<"t1">>
    /\ Len(hFrags["t1"]) >= 2
    /\ Len(frames) > hMerge.from
    /\ frames[hMerge.from + 1].type = "assistant"
    /\ \E i \in 1..hMerge.from :
          frames[i].type = "tool_call" /\ frames[i].toolCalls # hMerge.table

\* the ids of the rows of a tool table, in order
RowIds(tcs) == [i \in 1..Len(tcs) |-> tcs[i].id]

\* C30: Producer, tool table invariant.  The table has no two rows with the same
\* id; the map has the ids of the table as its keys and maps each to the position
\* of its row; the rows are, in order, the ids in the order in which fragments
\* first carried them; and a step never deletes or moves a row.
C30_ToolTable ==
    /\ [](/\ \A i, j \in 1..Len(toolCalls) :
                toolCalls[i].id = toolCalls[j].id => i = j
          /\ DOMAIN toolCallsMap = {toolCalls[i].id : i \in 1..Len(toolCalls)}
          /\ \A i \in 1..Len(toolCalls) : toolCallsMap[toolCalls[i].id] = i
          /\ RowIds(toolCalls) = hSeen)
    /\ [][/\ Len(toolCalls') >= Len(toolCalls)
          /\ SubSeq(RowIds(toolCalls'), 1, Len(toolCalls)) = RowIds(toolCalls)]_vars

\* C30 witness: t2 was seen before t1, both were restated or received a result
\* since, and the table still has t2 first.
C30_Witness ==
    /\ hSeen = <<"t2", "t1">>
    /\ RowIds(toolCalls) = <<"t2", "t1">>
    /\ toolCallsMap["t1"] = 2
    /\ nEvents = MaxEvents
    /\ \E i \in 1..Len(frames) :
          frames[i].type = "tool_call" /\ Len(frames[i].toolCalls) = 1


Running == {k \in 1..Len(calls) : calls[k].pc # "finished"}

\* the timeline entries appended by invocation k, given that invocations do not
\* overlap: from its user entry up to the next invocation's
EntriesOf(k) ==
    (calls[k].base + 1)..(IF k < Len(calls) THEN calls[k + 1].base ELSE Len(messages))

\* C22: Consumer, transport failure.  When the fetch fails, the status is not 2xx
\* or the response has no body, the invocation has appended, after its user
\* entry, which is still there, exactly one entry, of kind error, and the loading
\* indicator is off once it has returned.
C22_TransportFailure ==
    \A k \in 1..Len(calls) :
        calls[k].outcome = "transport" =>
            /\ calls[k].pc = "finished"
            /\ EntriesOf(k) = {calls[k].base + 1, calls[k].base + 2}
            /\ messages[calls[k].base + 1].eventType = "user_message"
            /\ messages[calls[k].base + 1].content = calls[k].userMessageContent
            /\ messages[calls[k].base + 2].eventType = "error"
            /\ messages[calls[k].base + 2].content \in
                  {error.message : error \in TransportErrors}
            /\ Running = {} => ~isLoading

\* C22 witness: the second request of the page failed before any frame was read,
\* after a first one that streamed text.
C22_Witness ==
    /\ Len(calls) = 2
    /\ calls[1].text # ""
    /\ calls[2].outcome = "transport"
    /\ messages[Len(messages)].content = "HTTP error! status: 500"
    /\ ~isLoading

\* C23 as stated: Consumer, loading indicator.  The indicator is on from the start
\* of a request until its terminal (done or assistant) frame is processed, and
\* off once that frame has been processed.
C23_OffAtTerminal ==
    \A k \in 1..Len(calls) :
        /\ (calls[k].pc # "finished" /\ ~calls[k].terminal) => isLoading
        /\ (k = Len(calls) /\ calls[k].terminal) => ~isLoading

\* C23 as amended: the indicator is on in every state from the start of a request
\* until sendMessage returns, which it does when the response stream has ended or
\* the request has failed; processing a done or assistant frame leaves it on.
C23_OnUntilReturn ==
    /\ [](isLoading <=> Running # {})
    /\ [][\A k \in 1..Len(calls) :
             (~calls[k].terminal /\ calls'[k].terminal) => isLoading']_vars

\* C23 witness: the done frame of a request was processed, the stream has not
\* ended yet, and the indicator is on.
C23_Witness ==
    /\ Len(calls) = 1
    /\ calls[1].pc = "reading"
    /\ calls[1].done
    /\ isLoading

\* the requests sent and not yet answered to the end
InFlight == {k \in 1..Len(calls) : calls[k].pc \in {"fetch", "reading", "logAssistant"}}

RECURSIVE LogsOf(_, _)
\* role and content of the log entries of invocation k, in order
LogsOf(k, ls) ==
    IF ls = <<>> THEN <<>>
    ELSE (IF Head(ls).call = k
          THEN <<[role |-> Head(ls).role, content |-> Head(ls).content]>> ELSE <<>>)
            \o LogsOf(k, Tail(ls))

\* invocation k completed successfully: the response was read to its end, it
\* brought a done frame and no error frame
Succeeded(k) ==
    /\ calls[k].pc = "finished"
    /\ calls[k].outcome = "ok"
    /\ calls[k].done
    /\ ~calls[k].errored

\* C26: Consumer, logging content.  A request that has returned while a session
\* id was held has reported exactly two log entries if it completed successfully,
\* the user's text and then the whole assistant text, and none otherwise.
C26_TwoLogEntries ==
    \A k \in 1..Len(calls) :
        (calls[k].pc = "finished" /\ calls[k].sessionId # Null) =>
            LogsOf(k, logs) =
                IF Succeeded(k)
                THEN <<[role |-> "user", content |-> calls[k].userMessageContent],
                       [role |-> "assistant", content |-> calls[k].text]>>
                ELSE <<>>

\* C27: Consumer, logging is fire-and-forget.  No sendMessage invocation is ever
\* suspended on a log call: while a log call is outstanding the invocation that
\* made it has gone on to send the chat request or to read the next frame.
C27_NeverWaitsForLog ==
    \A i \in 1..Len(logs) :
        ~logs[i].settled => calls[logs[i].call].pc \notin {"logUser", "logAssistant"}


\* C31: Producer, snapshots are immutable.  A frame is encoded when sendChunk is
\* called: no step changes a frame that was emitted before it, whatever the step
\* does to the rows of the tool table (name, input, result, status).
C31_SnapshotsImmutable ==
    [][/\ Len(frames') >= Len(frames)
       /\ \A i \in 1..Len(frames) : frames'[i] = frames[i]]_vars

\* C31 witness: a tool_call frame shows the row of t1 as pending and without a
\* result, and the table's row of t1 has since received a result and a status.
C31_Witness ==
    \E i \in 1..Len(frames) :
        /\ frames[i].type = "tool_call"
        /\ frames[i].toolCalls[1].id = "t1"
        /\ frames[i].toolCalls[1].status = "pending"
        /\ "result" \notin DOMAIN frames[i].toolCalls[1]
        /\ toolCalls[1].id = "t1"
        /\ toolCalls[1].status = "success"
        /\ "result" \in DOMAIN toolCalls[1]
        /\ \E j \in (i + 1)..Len(frames) : frames[j].type = "tool_result"


RECURSIVE StreamedText(_)
\* the deltas of the content_delta frames of a stream, concatenated in order
StreamedText(fr) ==
    IF fr = <<>> THEN ""
    ELSE (IF Head(fr).type = "content_delta" THEN Head(fr).delta ELSE "")
            \o StreamedText(Tail(fr))

\* C36 as stated: Producer, final text is the streamed text.  The content of the
\* done frame is the concatenation, in order, of the deltas of the content_delta
\* frames of the same stream.
C36_DoneIsStreamedText ==
    hExit = "exhausted" => frames[Len(frames)].content = StreamedText(frames)


\* the rows of a tool table that have the id
RowsOf(tcs, id) == {k \in 1..Len(tcs) : tcs[k].id = id}

\* C37 as stated: Producer, effect of a tool-result event.  A result event whose
\* id matches a row changes only the result and status of that row and emits
\* exactly one tool_result frame with that id, the raw payload and the whole
\* table; the other rows, the text and the thinking are unchanged; a result event
\* whose id matches no row changes nothing and emits no frame.
C37_ResultEffect ==
    [][nEvents' # nEvents /\ hResult' # NoResult =>
          LET m == hResult'
              id == Str(m, "tool_use_id")
              K == RowsOf(toolCalls, id)
          IN  /\ assistantMessage' = assistantMessage
              /\ thinking' = thinking
              /\ usageMetadata' = usageMetadata
              /\ Len(toolCalls') = Len(toolCalls)
              /\ \A k \in 1..Len(toolCalls) :
                    IF k \in K
                    THEN /\ toolCalls'[k].id = toolCalls[k].id
                         /\ toolCalls'[k].name = toolCalls[k].name
                         /\ toolCalls'[k].input = toolCalls[k].input
                         /\ toolCalls'[k].status =
                                IF Str(m, "subtype") = "success" THEN "success" ELSE "error"
                         /\ ("result" \in DOMAIN toolCalls'[k]) = ("content" \in DOMAIN m)
                         /\ "content" \in DOMAIN m => toolCalls'[k].result = m.content
                    ELSE toolCalls'[k] = toolCalls[k]
              /\ IF K # {}
                 THEN /\ Len(frames') = Len(frames) + 1
                      /\ SubSeq(frames', 1, Len(frames)) = frames
                      /\ frames'[Len(frames')].type = "tool_result"
                      /\ frames'[Len(frames')].toolUseId = id
                      /\ frames'[Len(frames')].toolCalls = toolCalls'
                      /\ ("result" \in DOMAIN frames'[Len(frames')]) = ("content" \in DOMAIN m)
                      /\ "content" \in DOMAIN m => frames'[Len(frames')].result = m.content
                 ELSE frames' = frames]_vars


\* C33 as stated: Producer, failed frame send.  Once the writing of a frame has
\* thrown, the Producer consumes no further upstream message: the only step it
\* still takes ends the stream.
C33_StopsOnFailedSend ==
    [][sendErrors > 0 /\ pc = "streaming" => nEvents' = nEvents /\ pc' = "closed"]_vars


RECURSIVE Transcript(_)
\* the turns as a role-labelled transcript, each turn once and in order
Transcript(turns) ==
    IF turns = <<>> THEN ""
    ELSE (IF Head(turns).role = "user" THEN "User" ELSE "Assistant")
            \o ": " \o Head(turns).content \o "\n\n" \o Transcript(Tail(turns))

\* C32 as stated: Producer, prompt flattening.  For a request on which query()
\* was invoked, the last turn of the request is a user turn and the prompt is the
\* transcript of all turns but the last followed by the last turn as the current
\* user turn, so that every turn appears once.
C32_PromptIsTranscript ==
    queryCalls > 0 =>
        LET msgs == RequestMessages(body) IN
        /\ msgs[Len(msgs)].role = "user"
        /\ prompt = Transcript(SubSeq(msgs, 1, Len(msgs) - 1))
                        \o "User: " \o msgs[Len(msgs)].content

\* the same, for the requests whose last turn is a user turn
PromptWhenUserLast ==
    queryCalls > 0 /\ RequestMessages(body)[Len(RequestMessages(body))].role = "user" =>
        LET msgs == RequestMessages(body) IN
        prompt = Transcript(SubSeq(msgs, 1, Len(msgs) - 1))
                        \o "User: " \o msgs[Len(msgs)].content


\* C34 as stated: Consumer, open content entry reset.  The first content delta
\* after a terminal frame (or after the start of a request) appends a new content
\* entry whose text is that delta alone, and no step changes the text of a content
\* entry that was already there at the last terminal frame.
C34_OpenEntryReset ==
    [][/\ \A i \in 1..Len(messages) :
             i <= hBase /\ messages[i].eventType = "content_delta" =>
                 messages'[i].content = messages[i].content
       /\ hDeltas = <<>> /\ Len(hDeltas') = 1 =>
             /\ Len(messages') = Len(messages) + 1
             /\ SubSeq(messages', 1, Len(messages)) = messages
             /\ messages'[Len(messages')].eventType = "content_delta"
             /\ messages'[Len(messages')].content = hDeltas'[1]]_vars


\* C38 as stated: Consumer, request turns.  Every turn of the messages array of a
\* chat request is a user message or accumulated assistant text and has a text
\* content; entries of kind thinking, tool call, tool result or error are not sent.
C38_GenuineTurns ==
    \A k \in 1..Len(calls) :
        LET turns == calls[k].request.messages IN
        /\ \A i \in 1..Len(turns) : "content" \in DOMAIN turns[i]
        /\ \A i \in 1..Len(calls[k].kinds) :
              calls[k].kinds[i] \in {"user_message", "content_delta"}


\* the chat request of the k-th sendMessage was answered or has failed
Answered(k) == IF k <= Len(calls) THEN calls[k].outcome # "" ELSE FALSE

\* the k-th sendMessage has returned
Returned(k) == IF k <= Len(calls) THEN calls[k].pc = "finished" ELSE FALSE

\* C39 as stated: Consumer, every request ends.  Every request whose chat request
\* was answered or failed comes to the return of sendMessage with the loading
\* indicator off, and the rendered send control is then enabled again.
C39_EveryRequestEnds ==
    /\ \A k \in 1..MaxSteps :
          (Answered(k) /\ ~Returned(k)) ~> (Returned(k) /\ ~isLoading)
    /\ (~isLoading /\ closure.isLoading) ~> ~closure.isLoading


RECURSIVE Replay(_, _, _)
\* the loop body applied to the messages evs in order, up to a throw
Replay(l, fr, evs) ==
    IF evs = <<>> THEN [local |-> l, frames |-> fr, threw |-> FALSE]
    ELSE LET h == Handle(l, fr, Head(evs)) IN
         IF h.threw THEN h ELSE Replay(h.local, h.frames, Tail(evs))

\* request r running alone on the upstream messages it has consumed, ended the
\* way its iterator ended
Alone(r) ==
    LET h == Replay(Local0, <<>>, streams[r].events)
        exit == streams[r].exit
    IN  [local |-> h.local,
         frames |->
            IF exit = "exhausted"
            THEN Append(h.frames, Summary("done", h.local.assistantMessage,
                                          h.local.thinking, h.local.toolCalls, Model,
                                          h.local.usageMetadata))
            ELSE IF exit = "raised"
            THEN Append(h.frames, ErrorChunk([message |-> "upstream failed"]))
            ELSE IF exit = "threw"
            THEN Append(h.frames, ErrorChunk(PreviewTypeError))
            ELSE h.frames]

\* C35: Producer, request isolation.  With two requests streaming at the same
\* time, under every interleaving of their upstream messages each request has
\* emitted the frames, and holds the text, thinking, tool table and usage, that
\* it has when it runs alone on the same messages.
C35_Isolation ==
    \A r \in Requests :
        /\ streams[r].frames = Alone(r).frames
        /\ store[Scope(r)] = Alone(r).local

\* C35 witness: both requests are in their loops and have consumed their
\* messages; the first has a tool row with a result and no text, the second has
\* text and thinking and no tool row.
C35_Witness ==
    /\ \A r \in Requests : streams[r].pc = "streaming" /\ Len(streams[r].events) = MaxTurns
    /\ Len(store[Scope(1)].toolCalls) = 1
    /\ store[Scope(1)].toolCalls[1].status = "success"
    /\ store[Scope(1)].assistantMessage = ""
    /\ store[Scope(2)].toolCalls = <<>>
    /\ store[Scope(2)].assistantMessage = "a"
    /\ store[Scope(2)].thinking = "Let"
    /\ Len(streams[1].frames) = 2
    /\ Len(streams[2].frames) = 2

\* the accumulators of the single response of Spec
Locals ==
    [assistantMessage |-> assistantMessage, thinking |-> thinking,
     toolCalls |-> toolCalls, toolCallsMap |-> toolCallsMap,
     usageMetadata |-> usageMetadata]

\* every message that the single response of Spec consumes is handled as Handle
\* handles it
HandlersAgree ==
    [][nEvents' # nEvents =>
          \E u \in AllUpstream :
              LET h == Handle(Locals, frames, u) IN
              /\ Locals' = h.local
              /\ IF h.threw
                 THEN /\ frames' = sendChunk(h.frames, ErrorChunk(PreviewTypeError))
                      /\ pc' = "closed"
                 ELSE /\ frames' = h.frames
                      /\ pc' = pc]_vars

====
